---- MODULE Spec2Model ----
(***************************************************************************)
(* Position Risk Control Engine of high-freq-trading-system/risk:          *)
(*   RiskManager      (risk_manager.py)      the signal-approval gate      *)
(*   PositionSizer    (position_sizer.py)    the position-sizing formula   *)
(*   StopLossManager  (stop_loss_manager.py) fixed / trailing stop tracker *)
(*   TakeProfitManager (take_profit_manager.py) take-profit ladder tracker *)
(*                                                                         *)
(* Numbers.  The Python code computes in floats; the model computes the    *)
(* same expressions in exact arithmetic.  Percentages and sentiment scores *)
(* are integers in hundredths (0.15 is 15, -0.4 is -40), a multiplier is   *)
(* an integer in hundredths (0.35 is 35), money amounts and prices are     *)
(* integers, quotients are rationals <<numerator, denominator>> with a     *)
(* positive denominator, and a stop price is kept times 100 (98.00 is      *)
(* 9800) so that price*(1 - pct) stays an integer.                         *)
(***************************************************************************)
EXTENDS Integers, Sequences, FiniteSets, TLC

VARIABLES
    \* ---- RiskManager (risk_manager.py:44-57) ----
    sentiment_enabled,      \* self.sentiment_enabled
    is_paused,              \* self.is_paused
    pause_reason,           \* self.pause_reason
    max_equity,             \* self.max_equity
    cached_sentiment,       \* self.cached_sentiment
    last_sentiment_check,   \* self.last_sentiment_check
    now,                    \* time.time(), seconds since construction
    gate_call,              \* the last call on the gate: operation, inputs, checks it ran
    decision,               \* what the last call returned, if it was validate_signal
    calls,                  \* per thread: the validate_signal call it is in, its locals
    \* ---- PositionSizer (position_sizer.py:28-30) ----
    sizer_cfg,              \* base_position_pct, max_position_pct, account_risk_pct
    sizing_call,            \* the last call on the sizer and its inputs
    sizing,                 \* what the last call returned, if it was calculate_position_size
    \* ---- StopLossManager (stop_loss_manager.py:30-37) ----
    stop_cfg,               \* default/breakout stop, trailing_enabled, activation, distance
    position_stops,         \* self.position_stops: symbol -> stop_info
    stop_call,              \* the last call on the tracker and its inputs
    stop_result,            \* what the last call returned, if it was update_stop_loss
    \* ---- TakeProfitManager (take_profit_manager.py:27-36) ----
    tp_cfg,                 \* self.default_levels, self.default_ratios
    targets,                \* self.targets: symbol -> tp_info
    tp_call,                \* the last call on the tracker and its inputs
    tp_result,              \* what the last call returned, if it was update_take_profit
    tp_calls,               \* per thread: the update_take_profit call it is in, its locals
    \* ---- RateLimiter, AdaptiveRateLimiter (rate_limiter.py:27-33, 121-123) ----
    rl_config,              \* the limit and window the limiter was constructed with
    rl_limit,               \* self.limits[key]['limit']
    call_history,           \* self.call_history[key], oldest first
    error_count,            \* self.error_count[key]
    success_count,          \* self.success_count[key]
    rl_now,                 \* time.time(), hundredths of a second since construction
    rl_threads,             \* per thread: the acquire call it is in, its max_calls
    rl_call                 \* the last call on the limiter, and whether it raised

gate_vars  == <<sentiment_enabled, is_paused, pause_reason, max_equity,
                cached_sentiment, last_sentiment_check, now, gate_call, decision,
                calls>>
sizer_vars == <<sizer_cfg, sizing_call, sizing>>
stop_vars  == <<stop_cfg, position_stops, stop_call, stop_result>>
tp_vars    == <<tp_cfg, targets, tp_call, tp_result, tp_calls>>
limiter_vars == <<rl_config, rl_limit, call_history, error_count, success_count,
                  rl_now, rl_threads, rl_call>>
vars == <<gate_vars, sizer_vars, stop_vars, tp_vars, limiter_vars>>

-----------------------------------------------------------------------------
(* Exact rationals <<n, d>>, d > 0.                                         *)

RECURSIVE Gcd(_, _)
Gcd(a, b) == IF b = 0 THEN a ELSE Gcd(b, a % b)

Abs(x) == IF x < 0 THEN -x ELSE x

Norm(n, d) == LET g == Gcd(Abs(n), d) IN IF g = 0 THEN <<0, 1>> ELSE <<n \div g, d \div g>>

Rat(n) == <<n, 1>>
Pct(p) == Norm(p, 100)
RMul(a, b) == Norm(a[1] * b[1], a[2] * b[2])
\* a / b for b > 0
RDiv(a, b) == Norm(a[1] * b[2], a[2] * b[1])
RLe(a, b) == a[1] * b[2] <= b[1] * a[2]
RLt(a, b) == a[1] * b[2] < b[1] * a[2]
RGe(a, b) == RLe(b, a)
RGt(a, b) == RLt(b, a)
REq(a, b) == a[1] * b[2] = b[1] * a[2]
RMin(a, b) == IF RLt(b, a) THEN b ELSE a
\* Python's min(a, b, c): the first of the smallest
RMin3(a, b, c) == RMin(RMin(a, b), c)

-----------------------------------------------------------------------------
(* RiskManager                                                              *)

\* config defaults, in hundredths
veto_threshold == -40
critical_threshold == -60
sentiment_reduce_below == -20
fud_warning_above == 30
liquidation_warning_threshold == 20
liquidation_critical_threshold == 50
risk_rate_reduce_above == 10
max_drawdown == 15
pause_threshold == 10
balance_reject_below == 10
balance_warn_below == 20
sentiment_cache_seconds == 300

\* time passes in steps of the cache lifetime, and the clock stops at MaxClock
TickSeconds == sentiment_cache_seconds
MaxClock == 300

\* inputs of validate_signal
\* an account snapshot with the open positions passed along with it
AccountInputs ==
    {<<[total |-> 100, available |-> 50, used |-> 0], <<>>>>,
     <<[total |-> 100, available |-> 9, used |-> 15], <<"BTC">>>>,
     <<[total |-> 100, available |-> 15, used |-> 20], <<"BTC">>>>,
     <<[total |-> 100, available |-> 50, used |-> 50], <<"BTC">>>>,
     <<[total |-> 90, available |-> 50, used |-> 0], <<>>>>,
     <<[total |-> 85, available |-> 50, used |-> 15], <<"BTC">>>>,
     <<[total |-> 85, available |-> 5, used |-> 50], <<"BTC">>>>,
     <<[total |-> 85, available |-> 5, used |-> 50], <<>>>>,
     <<[total |-> 0, available |-> 0, used |-> 0], <<>>>>}
NoSentiment == [given |-> FALSE, score |-> 0, fud_ratio |-> 0]
Sentiments == {NoSentiment}
       \cup {[given |-> TRUE, score |-> s, fud_ratio |-> 0] : s \in {-60, -40, -30}}
       \cup {[given |-> TRUE, score |-> 0, fud_ratio |-> 31]}
\* a sell signal never reaches the sentiment check: two readings are enough
SignalInputs == {<<"buy", s>> : s \in Sentiments}
       \cup {<<"sell", NoSentiment>>,
             <<"sell", [given |-> TRUE, score |-> -60, fud_ratio |-> 0]>>}
PauseReasons == {"manual"}
ResetValues == {85}

NoCache == [set |-> FALSE, score |-> 0, fud_ratio |-> 0]
NoDecision == [approved |-> FALSE, reason |-> "none",
               position_size_multiplier |-> 0, warnings |-> <<>>]
NoAccount == [total |-> 0, available |-> 0, used |-> 0]

\* the instance attributes validate_signal reads and writes
GateState == [is_paused |-> is_paused, pause_reason |-> pause_reason,
              max_equity |-> max_equity, cached_sentiment |-> cached_sentiment,
              last_sentiment_check |-> last_sentiment_check]

ScaleMultiplierReplaces(m, p) == p

\* m * p, both in hundredths (position_multiplier *= 0.7)
ScaleMultiplier(m, p) == (m * p) \div 100

VetoStrict(sentiment_score) == sentiment_score < veto_threshold

\* if sentiment_score <= self.veto_threshold
Veto(sentiment_score) == sentiment_score <= veto_threshold

CacheAfterKeepsReading(st, sentiment_data, useCache) ==
    IF sentiment_data.given
    THEN [set |-> TRUE, score |-> sentiment_data.score,
          fud_ratio |-> sentiment_data.fud_ratio]
    ELSE IF useCache THEN st.cached_sentiment
    ELSE [set |-> TRUE, score |-> 0, fud_ratio |-> 0]

\* self.cached_sentiment after _check_sentiment: written only on the
\* default path, with the neutral reading (lines 183-184)
CacheAfter(st, sentiment_data, useCache) ==
    IF sentiment_data.given \/ useCache THEN st.cached_sentiment
    ELSE [set |-> TRUE, score |-> 0, fud_ratio |-> 0]

check_sentiment(st, sentiment_data, t) ==
    LET useGiven == sentiment_data.given
        useCache == ~useGiven /\ st.cached_sentiment.set
                      /\ (t - st.last_sentiment_check) < sentiment_cache_seconds
        sentiment_score == IF useGiven THEN sentiment_data.score
                           ELSE IF useCache THEN st.cached_sentiment.score ELSE 0
        fud_ratio == IF useGiven THEN sentiment_data.fud_ratio
                     ELSE IF useCache THEN st.cached_sentiment.fud_ratio ELSE 0
        cache == CacheAfter(st, sentiment_data, useCache)
        checked == IF useGiven \/ useCache THEN st.last_sentiment_check ELSE t
        base == [sentiment_score |-> sentiment_score, cached_sentiment |-> cache,
                 last_sentiment_check |-> checked]
    IN  IF sentiment_score <= critical_threshold
        THEN base @@ [approved |-> FALSE, reason |-> "Critical negative sentiment",
                      warnings |-> <<"FUD ratio">>]
        ELSE IF Veto(sentiment_score)
        THEN base @@ [approved |-> FALSE, reason |-> "Negative sentiment veto",
                      warnings |-> <<"FUD ratio">>]
        ELSE base @@ [approved |-> TRUE, reason |-> "Sentiment check passed",
                      warnings |-> IF fud_ratio > fud_warning_above
                                   THEN <<"High FUD ratio">> ELSE <<>>]

check_liquidation_risk(account_info, positions) ==
    IF Len(positions) = 0
    THEN [approved |-> TRUE, reason |-> "No positions", risk_rate |-> Rat(0),
          warnings |-> <<>>]
    ELSE LET risk_rate == IF account_info.total > 0
                          THEN Norm(account_info.used, account_info.total)
                          ELSE Rat(0)
         IN  IF RGe(risk_rate, Pct(liquidation_critical_threshold))
             THEN [approved |-> FALSE, reason |-> "Critical liquidation risk",
                   risk_rate |-> risk_rate, warnings |-> <<"Immediate action required!">>]
             ELSE [approved |-> TRUE, reason |-> "Liquidation risk acceptable",
                   risk_rate |-> risk_rate,
                   warnings |-> IF RGe(risk_rate, Pct(liquidation_warning_threshold))
                                THEN <<"Warning: risk rate">> ELSE <<>>]

UpdateMaxEquityReset(max, total_equity) == total_equity

\* if total_equity > self.max_equity: self.max_equity = total_equity
UpdateMaxEquity(max, total_equity) == IF total_equity > max THEN total_equity ELSE max

\* (self.max_equity - total_equity) / self.max_equity, 0 when max_equity is 0
Drawdown(max, total_equity) ==
    IF max > 0 THEN Norm(max - total_equity, max) ELSE Rat(0)

DrawdownBreachAtPauseThreshold(drawdown) == RGe(drawdown, Pct(pause_threshold))

\* if drawdown >= max_drawdown
DrawdownBreach(drawdown) == RGe(drawdown, Pct(max_drawdown))

check_drawdown(st, account_info) ==
    LET total_equity == account_info.total
        max == UpdateMaxEquity(st.max_equity, total_equity)
        drawdown == Drawdown(max, total_equity)
    IN  IF DrawdownBreach(drawdown)
        THEN [approved |-> FALSE, reason |-> "Max drawdown reached", drawdown |-> drawdown,
              warnings |-> <<"Trading paused">>, max_equity |-> max,
              is_paused |-> TRUE, pause_reason |-> "Max drawdown reached"]
        ELSE [approved |-> TRUE, reason |-> "Drawdown acceptable", drawdown |-> drawdown,
              warnings |-> IF RGe(drawdown, Pct(pause_threshold))
                           THEN <<"High drawdown">> ELSE <<>>,
              max_equity |-> max,
              is_paused |-> st.is_paused, pause_reason |-> st.pause_reason]

\* the low-balance case only logs: the result carries no warnings
check_account_balance(account_info) ==
    LET available == account_info.available
        total == account_info.total
    IN  IF total > 0 /\ RLt(Rat(available), RMul(Rat(total), Pct(balance_reject_below)))
        THEN [approved |-> FALSE, reason |-> "Insufficient available balance"]
        ELSE [approved |-> TRUE, reason |-> "Balance sufficient"]

RejectedKeepsMultiplier(reason, warnings) ==
    [approved |-> FALSE, reason |-> reason,
     position_size_multiplier |-> 100, warnings |-> warnings]

\* every early return of validate_signal: approved False, multiplier 0.0
Rejected(reason, warnings) ==
    [approved |-> FALSE, reason |-> reason,
     position_size_multiplier |-> 0, warnings |-> warnings]

PauseCheckOnlyOnDrawdown(st) == st.is_paused /\ st.pause_reason # "manual"

\* if self.is_paused
PauseCheck(st) == st.is_paused

\* validate_signal: the decision, the attributes after the call, and the checks
\* it called, in order
validate_signal(st, signal, account_info, positions, sentiment_data, t) ==
    IF PauseCheck(st)
    THEN [decision |-> Rejected("Trading paused", <<>>), st |-> st, ran |-> <<>>]
    ELSE
    LET runSentiment == sentiment_enabled /\ signal.direction = "buy"
        sen == check_sentiment(st, sentiment_data, t)
        st1 == IF runSentiment
               THEN [st EXCEPT !.cached_sentiment = sen.cached_sentiment,
                               !.last_sentiment_check = sen.last_sentiment_check]
               ELSE st
        ran1 == IF runSentiment THEN <<"sentiment">> ELSE <<>>
    IN
    IF runSentiment /\ ~sen.approved
    THEN [decision |-> Rejected(sen.reason, sen.warnings), st |-> st1, ran |-> ran1]
    ELSE
    LET reduce1 == runSentiment /\ sen.sentiment_score < sentiment_reduce_below
        mult1 == IF reduce1 THEN ScaleMultiplier(100, 70) ELSE 100
        warn1 == IF reduce1 THEN <<"Sentiment negative">> ELSE <<>>
        liq == check_liquidation_risk(account_info, positions)
        ran2 == Append(ran1, "liquidation")
    IN
    IF ~liq.approved
    THEN [decision |-> Rejected(liq.reason, liq.warnings), st |-> st1, ran |-> ran2]
    ELSE
    LET reduce2 == RGt(liq.risk_rate, Pct(risk_rate_reduce_above))
        mult2 == IF reduce2 THEN ScaleMultiplier(mult1, 50) ELSE mult1
        warn2 == warn1 \o liq.warnings
                   \o (IF reduce2 THEN <<"High risk rate">> ELSE <<>>)
        dd == check_drawdown(st1, account_info)
        st2 == [st1 EXCEPT !.max_equity = dd.max_equity, !.is_paused = dd.is_paused,
                           !.pause_reason = dd.pause_reason]
        ran3 == Append(ran2, "drawdown")
    IN
    IF ~dd.approved
    THEN [decision |-> Rejected(dd.reason, dd.warnings), st |-> st2, ran |-> ran3]
    ELSE
    LET warn3 == warn2 \o dd.warnings
        bal == check_account_balance(account_info)
        ran4 == Append(ran3, "balance")
    IN
    IF ~bal.approved
    THEN [decision |-> Rejected(bal.reason, warn3), st |-> st2, ran |-> ran4]
    ELSE [decision |-> [approved |-> TRUE, reason |-> "All risk checks passed",
                        position_size_multiplier |-> mult2, warnings |-> warn3],
          st |-> st2, ran |-> ran4]

NoGateCall == [op |-> "init", signal |-> [direction |-> "buy"], account |-> NoAccount,
               positions |-> <<>>, sentiment |-> NoSentiment, ran |-> <<>>]

\* a call that takes no signal and returns no decision
GateCall(op) == [NoGateCall EXCEPT !.op = op]

MaxEquityRaisedByEveryCall(r, account_info) ==
    UpdateMaxEquity(r.st.max_equity, account_info.total)

\* self.max_equity after validate_signal: written by _check_drawdown only
MaxEquityAfter(r, account_info) == r.st.max_equity

Evaluate ==
    \E ds \in SignalInputs, ap \in AccountInputs :
    \E r \in {validate_signal(GateState, [direction |-> ds[1]], ap[1], ap[2], ds[2], now)} :
        /\ decision' = r.decision
        /\ is_paused' = r.st.is_paused
        /\ pause_reason' = r.st.pause_reason
        /\ max_equity' = MaxEquityAfter(r, ap[1])
        /\ cached_sentiment' = r.st.cached_sentiment
        /\ last_sentiment_check' = r.st.last_sentiment_check
        /\ gate_call' = [op |-> "evaluate", signal |-> [direction |-> ds[1]],
                         account |-> ap[1], positions |-> ap[2], sentiment |-> ds[2],
                         ran |-> r.ran]
        /\ UNCHANGED <<sentiment_enabled, now, calls, sizer_vars, stop_vars, tp_vars, limiter_vars>>

pause_trading ==
    \E reason \in PauseReasons :
        /\ is_paused' = TRUE
        /\ pause_reason' = reason
        /\ gate_call' = GateCall("pause")
        /\ decision' = NoDecision
        /\ UNCHANGED <<sentiment_enabled, max_equity, cached_sentiment,
                       last_sentiment_check, now, calls, sizer_vars, stop_vars, tp_vars, limiter_vars>>

resume_trading ==
    /\ is_paused' = FALSE
    /\ pause_reason' = "None"
    /\ gate_call' = GateCall("resume")
    /\ decision' = NoDecision
    /\ UNCHANGED <<sentiment_enabled, max_equity, cached_sentiment,
                   last_sentiment_check, now, calls, sizer_vars, stop_vars, tp_vars, limiter_vars>>

reset_max_equity ==
    \E equity \in ResetValues :
        /\ max_equity' = equity
        /\ gate_call' = GateCall("reset")
        /\ decision' = NoDecision
        /\ UNCHANGED <<sentiment_enabled, is_paused, pause_reason, cached_sentiment,
                       last_sentiment_check, now, calls, sizer_vars, stop_vars, tp_vars, limiter_vars>>

\* time passes between calls
Tick ==
    /\ now + TickSeconds <= MaxClock
    /\ now' = now + TickSeconds
    /\ gate_call' = GateCall("tick")
    /\ decision' = NoDecision
    /\ UNCHANGED <<sentiment_enabled, is_paused, pause_reason, max_equity,
                   cached_sentiment, last_sentiment_check, calls, sizer_vars, stop_vars, tp_vars, limiter_vars>>

GateNext == Evaluate \/ pause_trading \/ resume_trading \/ reset_max_equity \/ Tick
-----------------------------------------------------------------------------
(* validate_signal called from two threads on one RiskManager.  The class   *)
(* holds no lock, so the calls interleave between their reads and writes of *)
(* the instance attributes.  A step below is one stretch of a call between  *)
(* two such points; the sentiment and liquidation checks, and the lines     *)
(* that compute the drawdown and set the pause, are each taken as one step. *)

Threads == {"t1", "t2"}

\* the calls the threads make: no open positions, with and without the
\* sentiment check
ConcurrentSignals == {<<"buy", NoSentiment>>, <<"sell", NoSentiment>>}
ConcurrentAccounts == {ap \in AccountInputs : ap[2] = <<>> /\ ap[1].total > 0}

\* a thread that is not inside validate_signal
Idle == [pc |-> "idle", signal |-> [direction |-> "buy"], account |-> NoAccount,
         positions |-> <<>>, sentiment |-> NoSentiment, position_multiplier |-> 100,
         warnings |-> <<>>, decision |-> NoDecision]

Returned(call, result) == [call EXCEPT !.pc = "returned", !.decision = result]

\* a thread enters validate_signal (lines 80-81)
Begin ==
    \E t \in Threads, ds \in ConcurrentSignals, ap \in ConcurrentAccounts :
        /\ calls[t].pc = "idle"
        /\ calls' = [calls EXCEPT ![t] =
                        [Idle EXCEPT !.pc = "pause_check", !.signal = [direction |-> ds[1]],
                                     !.sentiment = ds[2], !.account = ap[1],
                                     !.positions = ap[2]]]
        /\ UNCHANGED <<sentiment_enabled, is_paused, pause_reason, max_equity,
                       cached_sentiment, last_sentiment_check, now, gate_call, decision,
                       sizer_vars, stop_vars, tp_vars, limiter_vars>>

\* lines 84-90: the read of self.is_paused
CheckPaused ==
    \E t \in Threads :
        /\ calls[t].pc = "pause_check"
        /\ calls' = [calls EXCEPT ![t] =
                        IF PauseCheck(GateState)
                        THEN Returned(@, Rejected("Trading paused", <<>>))
                        ELSE [@ EXCEPT !.pc = "checks"]]
        /\ UNCHANGED <<sentiment_enabled, is_paused, pause_reason, max_equity,
                       cached_sentiment, last_sentiment_check, now, gate_call, decision,
                       sizer_vars, stop_vars, tp_vars, limiter_vars>>

\* lines 92-126: the sentiment check of a buy and the liquidation check
PreChecks ==
    \E t \in Threads :
        LET call == calls[t]
            runSentiment == sentiment_enabled /\ call.signal.direction = "buy"
            sen == check_sentiment(GateState, call.sentiment, now)
            reduce1 == runSentiment /\ sen.sentiment_score < sentiment_reduce_below
            mult1 == IF reduce1 THEN ScaleMultiplier(100, 70) ELSE 100
            warn1 == IF reduce1 THEN <<"Sentiment negative">> ELSE <<>>
            liq == check_liquidation_risk(call.account, call.positions)
            reduce2 == RGt(liq.risk_rate, Pct(risk_rate_reduce_above))
            mult2 == IF reduce2 THEN ScaleMultiplier(mult1, 50) ELSE mult1
            warn2 == warn1 \o liq.warnings
                       \o (IF reduce2 THEN <<"High risk rate">> ELSE <<>>)
        IN  /\ call.pc = "checks"
            /\ cached_sentiment' = IF runSentiment THEN sen.cached_sentiment
                                   ELSE cached_sentiment
            /\ last_sentiment_check' = IF runSentiment THEN sen.last_sentiment_check
                                       ELSE last_sentiment_check
            /\ calls' = [calls EXCEPT ![t] =
                            IF runSentiment /\ ~sen.approved
                            THEN Returned(@, Rejected(sen.reason, sen.warnings))
                            ELSE IF ~liq.approved
                            THEN Returned(@, Rejected(liq.reason, liq.warnings))
                            ELSE [@ EXCEPT !.pc = "compare", !.position_multiplier = mult2,
                                           !.warnings = warn2]]
            /\ UNCHANGED <<sentiment_enabled, is_paused, pause_reason, max_equity, now,
                           gate_call, decision, sizer_vars, stop_vars, tp_vars, limiter_vars>>

\* line 288: if total_equity > self.max_equity
CompareMaxEquity ==
    \E t \in Threads :
        /\ calls[t].pc = "compare"
        /\ calls' = [calls EXCEPT ![t].pc = IF calls[t].account.total > max_equity
                                            THEN "write" ELSE "compute"]
        /\ UNCHANGED <<sentiment_enabled, is_paused, pause_reason, max_equity,
                       cached_sentiment, last_sentiment_check, now, gate_call, decision,
                       sizer_vars, stop_vars, tp_vars, limiter_vars>>

\* line 289: self.max_equity = total_equity
WriteMaxEquity ==
    \E t \in Threads :
        /\ calls[t].pc = "write"
        /\ max_equity' = calls[t].account.total
        /\ calls' = [calls EXCEPT ![t].pc = "compute"]
        /\ UNCHANGED <<sentiment_enabled, is_paused, pause_reason, cached_sentiment,
                       last_sentiment_check, now, gate_call, decision,
                       sizer_vars, stop_vars, tp_vars, limiter_vars>>

\* lines 292-320 and 130-139: the drawdown from self.max_equity as it is now,
\* the pause when it reaches max_drawdown
ComputeDrawdown ==
    \E t \in Threads :
        LET call == calls[t]
            drawdown == Drawdown(max_equity, call.account.total)
        IN  /\ call.pc = "compute"
            /\ IF DrawdownBreach(drawdown)
               THEN /\ is_paused' = TRUE
                    /\ pause_reason' = "Max drawdown reached"
                    /\ calls' = [calls EXCEPT ![t] =
                                    Returned(@, Rejected("Max drawdown reached",
                                                         <<"Trading paused">>))]
               ELSE /\ UNCHANGED <<is_paused, pause_reason>>
                    /\ calls' = [calls EXCEPT ![t] =
                                    [@ EXCEPT !.pc = "balance",
                                              !.warnings =
                                                  @ \o (IF RGe(drawdown, Pct(pause_threshold))
                                                        THEN <<"High drawdown">> ELSE <<>>)]]
            /\ UNCHANGED <<sentiment_enabled, max_equity, cached_sentiment,
                           last_sentiment_check, now, gate_call, decision,
                           sizer_vars, stop_vars, tp_vars, limiter_vars>>

\* lines 141-158: the balance check and the final return
CheckBalance ==
    \E t \in Threads :
        LET call == calls[t]
            bal == check_account_balance(call.account)
        IN  /\ call.pc = "balance"
            /\ calls' = [calls EXCEPT ![t] =
                            IF ~bal.approved
                            THEN Returned(@, Rejected(bal.reason, call.warnings))
                            ELSE Returned(@, [approved |-> TRUE,
                                              reason |-> "All risk checks passed",
                                              position_size_multiplier |->
                                                  call.position_multiplier,
                                              warnings |-> call.warnings])]
            /\ UNCHANGED <<sentiment_enabled, is_paused, pause_reason, max_equity,
                           cached_sentiment, last_sentiment_check, now, gate_call, decision,
                           sizer_vars, stop_vars, tp_vars, limiter_vars>>

\* the caller takes the decision; the thread is free for its next call
Return ==
    \E t \in Threads :
        /\ calls[t].pc = "returned"
        /\ calls' = [calls EXCEPT ![t] = Idle]
        /\ UNCHANGED <<sentiment_enabled, is_paused, pause_reason, max_equity,
                       cached_sentiment, last_sentiment_check, now, gate_call, decision,
                       sizer_vars, stop_vars, tp_vars, limiter_vars>>

GateConcurrentNext ==
    \/ Begin \/ CheckPaused \/ PreChecks \/ CompareMaxEquity \/ WriteMaxEquity
    \/ ComputeDrawdown \/ CheckBalance \/ Return

-----------------------------------------------------------------------------
(* PositionSizer                                                            *)

\* __init__: the config, in hundredths; the first is the documented default
SizerConfigs == {[base_position_size |-> 10, max_position_size |-> 30, account_risk_pct |-> 2],
                 [base_position_size |-> 50, max_position_size |-> 30, account_risk_pct |-> 2]}

\* inputs of calculate_position_size
Equities == {0, 10000}
EntryPrices == {100}
StopLosses == {50, 98, 100, 150}
Strengths == {"strong", "medium", "weak", "other"}
Volatilities == {[atr |-> 1, price |-> 200], [atr |-> 1, price |-> 100],
                 [atr |-> 3, price |-> 100], [atr |-> 0, price |-> 0]}
RiskMultipliers == {0, 35, 100}
PositionValues == {0, 50, 100, 3000, 3001}
Signals == [direction : {"buy"}, entry_price : EntryPrices, stop_loss : StopLosses,
            strength : Strengths]
\* the calls with a positive equity and entry price, and three degenerate ones
SizeInputs ==
    ({10000} \X Signals \X Volatilities \X RiskMultipliers)
    \cup {<<0, [direction |-> "buy", entry_price |-> 100, stop_loss |-> 98,
                strength |-> "medium"], [atr |-> 1, price |-> 100], 100>>,
          <<10000, [direction |-> "buy", entry_price |-> 0, stop_loss |-> 98,
                    strength |-> "medium"], [atr |-> 1, price |-> 100], 100>>,
          <<10000, [direction |-> "buy", entry_price |-> 0, stop_loss |-> 0,
                    strength |-> "medium"], [atr |-> 0, price |-> 0], 100>>}

\* in tenths: 1.5, 1.0, 0.5
calculate_volatility_multiplier(volatility) ==
    LET atr == volatility.atr
        price == volatility.price
        atr_normalized == IF price > 0 THEN Norm(atr, price) ELSE Rat(0)
    IN  IF RLt(atr_normalized, Pct(1)) THEN Norm(15, 10)
        ELSE IF RLt(atr_normalized, Pct(3)) THEN Norm(10, 10)
        ELSE Norm(5, 10)

\* multipliers.get(strength, 1.0)
calculate_signal_multiplier(strength) ==
    CASE strength = "strong" -> Norm(12, 10)
      [] strength = "medium" -> Norm(10, 10)
      [] strength = "weak" -> Norm(7, 10)
      [] OTHER -> Norm(10, 10)

get_limiting_factor(adjusted_size, max_risk_size, max_position_size, final_size) ==
    IF final_size = adjusted_size THEN "none"
    ELSE IF final_size = max_risk_size THEN "risk_limit"
    ELSE IF final_size = max_position_size THEN "max_position_limit"
    ELSE "unknown"

FinalSizeIgnoresRiskCap(adjusted_size, max_risk_size, max_position_size) ==
    RMin(adjusted_size, max_position_size)

FinalSizeIgnoresPositionCap(adjusted_size, max_risk_size, max_position_size) ==
    RMin(adjusted_size, max_risk_size)

\* final_size = min(adjusted_size, max_risk_size, max_position_size)
FinalSize(adjusted_size, max_risk_size, max_position_size) ==
    RMin3(adjusted_size, max_risk_size, max_position_size)

NoSizing == [raised |-> FALSE, position_value |-> Rat(0), quantity |-> Rat(0),
             base_size |-> Rat(0), adjusted_size |-> Rat(0), risk_amount |-> Rat(0),
             stop_distance_pct |-> Rat(0), max_risk_limit |-> Rat(0),
             max_position_limit |-> Rat(0), limiting_factor |-> "none"]

\* abs(entry_price - stop_loss) / entry_price raises ZeroDivisionError for
\* entry_price = 0, and the logging line's final_size/account_equity does for
\* account_equity = 0
calculate_position_size(cfg, account_equity, signal, volatility, risk_multiplier) ==
    IF signal.entry_price = 0 \/ account_equity = 0
    THEN [NoSizing EXCEPT !.raised = TRUE]
    ELSE
    LET base_size == RMul(Rat(account_equity), Pct(cfg.base_position_size))
        vol_mult == calculate_volatility_multiplier(volatility)
        signal_mult == calculate_signal_multiplier(signal.strength)
        adjusted_size == RMul(RMul(RMul(base_size, vol_mult), signal_mult),
                              Pct(risk_multiplier))
        entry_price == signal.entry_price
        stop_loss == signal.stop_loss
        stop_distance == Norm(Abs(entry_price - stop_loss), entry_price)
        max_risk_amount == RMul(Rat(account_equity), Pct(cfg.account_risk_pct))
        max_risk_size == IF RGt(stop_distance, Rat(0))
                         THEN RDiv(max_risk_amount, stop_distance)
                         ELSE adjusted_size
        max_position_size == RMul(Rat(account_equity), Pct(cfg.max_position_size))
        final_size == FinalSize(adjusted_size, max_risk_size, max_position_size)
        quantity == RDiv(final_size, Rat(entry_price))
        risk_amount == RMul(final_size, stop_distance)
    IN  [raised |-> FALSE, position_value |-> final_size, quantity |-> quantity,
         base_size |-> base_size, adjusted_size |-> adjusted_size,
         risk_amount |-> risk_amount, stop_distance_pct |-> stop_distance,
         max_risk_limit |-> max_risk_size, max_position_limit |-> max_position_size,
         limiting_factor |-> get_limiting_factor(adjusted_size, max_risk_size,
                                                 max_position_size, final_size)]

validate_position(cfg, position_value, account_equity) ==
    LET position_pct == IF account_equity > 0 THEN Norm(position_value, account_equity)
                        ELSE Rat(0)
    IN  IF RGt(position_pct, Pct(cfg.max_position_size))
        THEN [valid |-> FALSE, reason |-> "exceeds maximum"]
        ELSE IF RLt(position_pct, Pct(1))
        THEN [valid |-> FALSE, reason |-> "too small"]
        ELSE [valid |-> TRUE, reason |-> "Position size valid"]

NoSignal == [direction |-> "buy", entry_price |-> 0, stop_loss |-> 0, strength |-> "medium"]
NoSizingCall == [op |-> "init", account_equity |-> 0, signal |-> NoSignal,
                 volatility |-> [atr |-> 0, price |-> 0], risk_multiplier |-> 0,
                 position_value |-> 0, valid |-> FALSE]

Size ==
    \E c \in SizeInputs :
        LET e == c[1]
            signal == c[2]
            v == c[3]
            m == c[4]
        IN  /\ sizing' = calculate_position_size(sizer_cfg, e, signal, v, m)
            /\ sizing_call' = [NoSizingCall EXCEPT !.op = "size", !.account_equity = e,
                                                  !.signal = signal, !.volatility = v,
                                                  !.risk_multiplier = m]
            /\ UNCHANGED <<sizer_cfg, gate_vars, stop_vars, tp_vars, limiter_vars>>

Validate ==
    \E pv \in PositionValues, e \in Equities :
        /\ sizing_call' = [NoSizingCall EXCEPT
                             !.op = "validate", !.account_equity = e, !.position_value = pv,
                             !.valid = validate_position(sizer_cfg, pv, e).valid]
        /\ sizing' = NoSizing
        /\ UNCHANGED <<sizer_cfg, gate_vars, stop_vars, tp_vars, limiter_vars>>

SizerNext == Size \/ Validate

-----------------------------------------------------------------------------
(* StopLossManager                                                          *)

\* __init__: the config, in hundredths; the first is the documented default
DefaultStopConfig == [default_pct |-> 2, breakout_pct |-> 3, trailing_enabled |-> TRUE,
                      trailing_activation |-> 1, trailing_distance |-> 1]
StopConfigs == {DefaultStopConfig,
                [DefaultStopConfig EXCEPT !.trailing_activation = 0],
                [DefaultStopConfig EXCEPT !.trailing_distance = 5],
                [DefaultStopConfig EXCEPT !.trailing_enabled = FALSE]}

Symbols == {"BTCUSDT", "ETHUSDT"}
Sides == {"buy", "sell"}
Strategies == {"default", "Breakout"}
PositionEntryPrices == {100}
Prices == {95, 98, 99, 100, 101, 102, 105}

\* a symbol that is not a key of self.position_stops
NoStop == [tracked |-> FALSE, fixed_stop |-> 0, trailing_stop |-> 0,
           trailing_activated |-> FALSE, highest_price |-> 0, lowest_price |-> 0,
           entry_price |-> 0, side |-> "buy", stop_pct |-> 0]

\* price * (1 - pct) for a buy, price * (1 + pct) for a sell, times 100
StopAt(side, price, pct) ==
    IF side = "buy" THEN price * (100 - pct) ELSE price * (100 + pct)

initialize_stop_loss(cfg, position, strategy) ==
    LET side == position.side
        entry_price == position.entry_price
        stop_pct == IF strategy = "Breakout" THEN cfg.breakout_pct ELSE cfg.default_pct
        fixed_stop == StopAt(side, entry_price, stop_pct)
    IN  [tracked |-> TRUE, fixed_stop |-> fixed_stop, trailing_stop |-> fixed_stop,
         trailing_activated |-> FALSE, highest_price |-> entry_price,
         lowest_price |-> entry_price, entry_price |-> entry_price, side |-> side,
         stop_pct |-> stop_pct]

\* (current_price - entry_price) / entry_price, sign flipped for a sell
PnlPct(stop_info, current_price) ==
    IF stop_info.side = "buy"
    THEN Norm(current_price - stop_info.entry_price, stop_info.entry_price)
    ELSE Norm(stop_info.entry_price - current_price, stop_info.entry_price)

ActivatedOnlyWhileInProfit(cfg, stop_info, pnl_pct) ==
    cfg.trailing_enabled /\ RGe(pnl_pct, Pct(cfg.trailing_activation))

\* step 1: the flag after the activation check
Activated(cfg, stop_info, pnl_pct) ==
    \/ stop_info.trailing_activated
    \/ /\ cfg.trailing_enabled
       /\ ~stop_info.trailing_activated
       /\ RGe(pnl_pct, Pct(cfg.trailing_activation))

ImprovesAlways(stop_info, current_price) == TRUE

\* step 2: current_price > highest_price (buy), current_price < lowest_price (sell)
Improves(stop_info, current_price) ==
    IF stop_info.side = "buy" THEN current_price > stop_info.highest_price
    ELSE current_price < stop_info.lowest_price

StopHitStrict(side, current_price, stop) ==
    IF side = "buy" THEN current_price * 100 < stop ELSE current_price * 100 > stop

\* step 3: current_price <= stop (buy), current_price >= stop (sell)
StopHit(side, current_price, stop) ==
    IF side = "buy" THEN current_price * 100 <= stop ELSE current_price * 100 >= stop

NoStopResult == [tracked |-> FALSE, stop_triggered |-> FALSE, has_stop |-> FALSE,
                 stop_price |-> 0, stop_type |-> "none", pnl_pct |-> Rat(0)]

\* update_stop_loss on a tracked symbol: the stop_info after the call and the result
update_stop_loss(cfg, stop_info, current_price) ==
    LET side == stop_info.side
        pnl_pct == PnlPct(stop_info, current_price)
        s1 == [stop_info EXCEPT !.trailing_activated = Activated(cfg, stop_info, pnl_pct)]
        move == s1.trailing_activated /\ Improves(s1, current_price)
        s2 == IF ~move THEN s1
              ELSE IF side = "buy"
              THEN [s1 EXCEPT !.highest_price = current_price,
                              !.trailing_stop = StopAt("buy", current_price,
                                                       cfg.trailing_distance)]
              ELSE [s1 EXCEPT !.lowest_price = current_price,
                              !.trailing_stop = StopAt("sell", current_price,
                                                       cfg.trailing_distance)]
        stop == IF s2.trailing_activated THEN s2.trailing_stop ELSE s2.fixed_stop
        type == IF s2.trailing_activated THEN "trailing" ELSE "fixed"
        hit == StopHit(side, current_price, stop)
    IN  [stop_info |-> s2,
         result |-> IF hit
                    THEN [tracked |-> TRUE, stop_triggered |-> TRUE, has_stop |-> TRUE,
                          stop_price |-> stop, stop_type |-> type, pnl_pct |-> pnl_pct]
                    ELSE [tracked |-> TRUE, stop_triggered |-> FALSE, has_stop |-> FALSE,
                          stop_price |-> 0, stop_type |-> "none", pnl_pct |-> pnl_pct]]

NoStopCall == [op |-> "init", symbol |-> "BTCUSDT", price |-> 0,
               position |-> [side |-> "buy", entry_price |-> 0]]

InitializeStopOf(symbols, sides, strategies) ==
    \E symbol \in symbols, side \in sides, e \in PositionEntryPrices, strategy \in strategies :
        /\ position_stops' = [position_stops EXCEPT
               ![symbol] = initialize_stop_loss(stop_cfg, [side |-> side, entry_price |-> e],
                                                strategy)]
        /\ stop_call' = [op |-> "initialize", symbol |-> symbol, price |-> e,
                          position |-> [side |-> side, entry_price |-> e]]
        /\ stop_result' = NoStopResult
        /\ UNCHANGED <<stop_cfg, gate_vars, sizer_vars, tp_vars, limiter_vars>>

UpdateStopLatchedOf(symbols, prices) ==
    \E symbol \in symbols, price \in prices :
        /\ stop_call' = [NoStopCall EXCEPT !.op = "update", !.symbol = symbol,
                                            !.price = price]
        /\ IF position_stops[symbol].tracked
           THEN \E r \in {update_stop_loss(stop_cfg, position_stops[symbol], price)} :
                IF stop_result.stop_triggered /\ stop_call.symbol = symbol
                THEN /\ position_stops' = position_stops
                     /\ stop_result' = stop_result
                ELSE /\ position_stops' = [position_stops EXCEPT ![symbol] = r.stop_info]
                     /\ stop_result' = r.result
           ELSE /\ position_stops' = position_stops
                /\ stop_result' = NoStopResult
        /\ UNCHANGED <<stop_cfg, gate_vars, sizer_vars, tp_vars, limiter_vars>>

UpdateStopOf(symbols, prices) ==
    \E symbol \in symbols, price \in prices :
        /\ stop_call' = [NoStopCall EXCEPT !.op = "update", !.symbol = symbol,
                                            !.price = price]
        /\ IF position_stops[symbol].tracked
           THEN \E r \in {update_stop_loss(stop_cfg, position_stops[symbol], price)} :
                /\ position_stops' = [position_stops EXCEPT ![symbol] = r.stop_info]
                /\ stop_result' = r.result
           ELSE /\ position_stops' = position_stops
                /\ stop_result' = NoStopResult
        /\ UNCHANGED <<stop_cfg, gate_vars, sizer_vars, tp_vars, limiter_vars>>

RemoveStopOf(symbols) ==
    \E symbol \in symbols :
        /\ position_stops' = [position_stops EXCEPT ![symbol] = NoStop]
        /\ stop_call' = [NoStopCall EXCEPT !.op = "remove", !.symbol = symbol]
        /\ stop_result' = NoStopResult
        /\ UNCHANGED <<stop_cfg, gate_vars, sizer_vars, tp_vars, limiter_vars>>

InitializeStop == InitializeStopOf(Symbols, Sides, Strategies)
UpdateStop == UpdateStopOf(Symbols, Prices)
RemoveStop == RemoveStopOf(Symbols)

StopNext == InitializeStop \/ UpdateStop \/ RemoveStop

-----------------------------------------------------------------------------
(* TakeProfitManager                                                        *)
(* A level percentage is an integer in hundredths, a ratio is a rational,   *)
(* a quantity is a rational, a target price is kept times 100.  The         *)
(* timestamps created_at and trigger_ts are left out: nothing reads them.   *)

\* an Optional[List]: None, or a list
None == [given |-> FALSE, list |-> <<>>]
Some(list) == [given |-> TRUE, list |-> list]

RAdd(a, b) == Norm(a[1] * b[2] + b[1] * a[2], a[2] * b[2])
RSub(a, b) == Norm(a[1] * b[2] - b[1] * a[2], a[2] * b[2])
RMax(a, b) == IF RLt(a, b) THEN b ELSE a

RECURSIVE RSum(_)
RSum(seq) == IF seq = <<>> THEN Rat(0) ELSE RAdd(Head(seq), RSum(Tail(seq)))

RECURSIVE Filter(_, _)
\* the entries of seq, in order, for which keep[i] holds
Filter(seq, keep) ==
    IF seq = <<>> THEN <<>>
    ELSE (IF keep[1] THEN <<Head(seq)>> ELSE <<>>)
            \o Filter(Tail(seq), [i \in 1..(Len(seq) - 1) |-> keep[i + 1]])

\* the documented default ladder, in hundredths
default_level_pcts == <<3, 5, 8>>

\* _sanitize_levels: the positive entries, in the order given
sanitize_levels(levels) ==
    IF ~levels.given \/ levels.list = <<>> THEN <<>>
    ELSE Filter(levels.list, [i \in DOMAIN levels.list |-> levels.list[i] > 0])

\* [float(r) for r in ratios if r >= 0], the entries in hundredths
non_negative_ratios(ratios) ==
    LET kept == Filter(ratios, [i \in DOMAIN ratios |-> ratios[i] >= 0])
    IN  [i \in DOMAIN kept |-> Pct(kept[i])]

PadWithFirst(normalized, length) ==
    IF normalized = <<>> THEN [i \in 1..length |-> Rat(1)]
    ELSE [i \in 1..length |-> IF i <= Len(normalized) THEN normalized[i]
                               ELSE normalized[1]]

\* the list padded with its last value, or cut, to the given length
PadOrTruncate(normalized, length) ==
    IF normalized = <<>> THEN [i \in 1..length |-> Rat(1)]
    ELSE IF Len(normalized) < length
    THEN normalized \o [i \in 1..(length - Len(normalized)) |-> normalized[Len(normalized)]]
    ELSE IF Len(normalized) > length THEN SubSeq(normalized, 1, length)
    ELSE normalized

RescaleSkipped(normalized, total) == normalized

\* [value / total for value in normalized], total > 0
Rescale(normalized, total) ==
    [i \in DOMAIN normalized |-> RDiv(normalized[i], total)]

\* _match_length_and_normalize
match_length_and_normalize(ratios, length) ==
    IF length <= 0 THEN <<>>
    ELSE LET normalized == PadOrTruncate(ratios, length)
             total == RSum(normalized)
         IN  IF REq(total, Rat(0)) THEN [i \in 1..length |-> Norm(1, length)]
             ELSE Rescale(normalized, total)

\* __init__: config is [has_levels, levels, ratios], levels a list and
\* ratios an Optional[List]
new_take_profit_manager(config) ==
    LET given == sanitize_levels(IF config.has_levels THEN Some(config.levels)
                                 ELSE Some(default_level_pcts))
        raw_levels == IF given = <<>> THEN default_level_pcts ELSE given
        raw_ratios == non_negative_ratios(config.ratios.list)
    IN  [default_levels |-> raw_levels,
         default_ratios |-> match_length_and_normalize(raw_ratios, Len(raw_levels))]

\* the documented default {} and a config with unequal ratios
DefaultTakeProfitConfig == [has_levels |-> FALSE, levels |-> <<>>, ratios |-> None]
TakeProfitConfigs ==
    {DefaultTakeProfitConfig,
     [has_levels |-> TRUE, levels |-> <<3, 5, 8>>, ratios |-> Some(<<50, 30, 20>>)]}

\* _prepare_levels_and_ratios
prepare_levels_and_ratios(cfg, requested_levels, requested_ratios) ==
    LET sanitized == IF requested_levels.given THEN sanitize_levels(requested_levels)
                     ELSE <<>>
        levels == IF sanitized = <<>> THEN cfg.default_levels ELSE sanitized
        requested == IF requested_ratios.given /\ requested_ratios.list # <<>>
                     THEN non_negative_ratios(requested_ratios.list) ELSE <<>>
        ratio_candidates == IF requested = <<>> THEN cfg.default_ratios ELSE requested
    IN  [levels |-> levels,
         ratios |-> match_length_and_normalize(ratio_candidates, Len(levels))]

\* _normalize_direction, on lower-case sides
normalize_direction(position) ==
    IF position.side \in {"sell", "short"} THEN "sell" ELSE "buy"

\* _is_level_hit, the target price times 100
is_level_hit(direction, current_price, target_price) ==
    IF direction = "buy" THEN current_price * 100 >= target_price
    ELSE current_price * 100 <= target_price

\* _calculate_target_price, times 100
calculate_target_price(entry_price, pct, direction) ==
    IF direction = "buy" THEN entry_price * (100 + pct) ELSE entry_price * (100 - pct)

\* a symbol that is not a key of self.targets
NoTarget == [tracked |-> FALSE, direction |-> "buy", entry_price |-> 0,
             total_qty |-> Rat(0), remaining_qty |-> Rat(0), levels |-> <<>>,
             next_index |-> 0, completed |-> FALSE]

\* initialize_take_profit: the tp_info it stores; zip pairs the levels with
\* the ratios up to the shorter list
initialize_take_profit(cfg, position, take_profit_pcts, ratios) ==
    LET direction == normalize_direction(position)
        entry_price == position.entry_price
        total_qty == IF position.qty <= 0 THEN Rat(1) ELSE Rat(position.qty)
        prepared == prepare_levels_and_ratios(cfg, take_profit_pcts, ratios)
        levels == prepared.levels
        normalized_ratios == prepared.ratios
        count == IF Len(levels) <= Len(normalized_ratios) THEN Len(levels)
                 ELSE Len(normalized_ratios)
        level_infos ==
            [i \in 1..count |->
                [index |-> i - 1,
                 pct |-> levels[i],
                 price |-> calculate_target_price(entry_price, levels[i], direction),
                 ratio |-> normalized_ratios[i],
                 target_qty |-> RMul(total_qty, normalized_ratios[i]),
                 triggered |-> FALSE,
                 filled_qty |-> Rat(0)]]
    IN  [tracked |-> TRUE, direction |-> direction, entry_price |-> entry_price,
         total_qty |-> total_qty, remaining_qty |-> total_qty, levels |-> level_infos,
         next_index |-> 0, completed |-> FALSE]

MarkTriggeredUnfilled(level, target_qty) == [level EXCEPT !.triggered = TRUE]

MarkTriggeredForgotten(level, target_qty) == [level EXCEPT !.filled_qty = target_qty]

\* lines 155-156: the level filled and marked
MarkTriggered(level, target_qty) ==
    [level EXCEPT !.filled_qty = target_qty, !.triggered = TRUE]

RemainingAfterRefund(remaining_qty, target_qty) == RAdd(remaining_qty, target_qty)

\* line 158: max(remaining_qty - target_qty, 0.0)
RemainingAfter(remaining_qty, target_qty) ==
    RMax(RSub(remaining_qty, target_qty), Rat(0))

RECURSIVE take_profit_loop(_, _, _, _)
\* the while loop of update_take_profit: the info it leaves and the levels
\* it triggered, in order
take_profit_loop(info, direction, current_price, triggered_levels) ==
    IF ~(info.next_index < Len(info.levels))
    THEN [info |-> info, triggered_levels |-> triggered_levels]
    ELSE LET at == info.next_index + 1
             level == info.levels[at]
         IN  IF ~is_level_hit(direction, current_price, level.price)
             THEN [info |-> info, triggered_levels |-> triggered_levels]
             ELSE LET target_qty == RMin(level.target_qty, info.remaining_qty)
                      remaining == RemainingAfter(info.remaining_qty, target_qty)
                      next == [info EXCEPT !.levels[at] = MarkTriggered(level, target_qty),
                                           !.remaining_qty = remaining,
                                           !.next_index = @ + 1]
                      listed == Append(triggered_levels,
                                       [index |-> level.index, price |-> level.price,
                                        ratio |-> level.ratio, qty |-> target_qty,
                                        pct |-> level.pct])
                  IN  IF RLe(remaining, Rat(0))
                      THEN [info |-> next, triggered_levels |-> listed]
                      ELSE take_profit_loop(next, direction, current_price, listed)

CompletedAtLastLevel(info) == info.next_index >= Len(info.levels)

\* line 177
Completed(info) ==
    info.next_index >= Len(info.levels) \/ RLe(info.remaining_qty, Rat(0))

StoreCompletedAndDrop(info) ==
    IF Completed(info) THEN NoTarget ELSE [info EXCEPT !.completed = Completed(info)]

\* line 178: info['completed'] = completed, the entry stays in self.targets
StoreCompleted(info) == [info EXCEPT !.completed = Completed(info)]

\* the result for a symbol that is not tracked
NoTakeProfitResult ==
    [tracked |-> FALSE, triggered |-> FALSE, triggered_levels |-> <<>>,
     remaining_qty |-> Rat(0), completed |-> FALSE, has_next_level |-> FALSE,
     next_level_price |-> 0]

\* update_take_profit on a tracked symbol: the info after the call and the result
update_take_profit(tp_info, current_price) ==
    LET looped == take_profit_loop(tp_info, tp_info.direction, current_price, <<>>)
        info == looped.info
        completed == Completed(info)
        has_next == info.next_index < Len(info.levels)
    IN  [info |-> StoreCompleted(info),
         result |-> [tracked |-> TRUE,
                     triggered |-> looped.triggered_levels # <<>>,
                     triggered_levels |-> looped.triggered_levels,
                     remaining_qty |-> info.remaining_qty,
                     completed |-> completed,
                     has_next_level |-> has_next,
                     next_level_price |-> IF has_next
                                          THEN info.levels[info.next_index + 1].price
                                          ELSE 0]]

TakeProfitPrices == {92, 95, 97, 100, 103, 105, 108}
Quantity == 10

\* the initialize calls: <<position, take_profit_pcts, ratios>>
TakeProfitInputs ==
    LET pos(side, qty) == [side |-> side, entry_price |-> 100, qty |-> qty]
    IN  {<<pos("buy", Quantity), None, None>>,
         <<pos("buy", Quantity), Some(<<3, 5, 8>>), Some(<<50>>)>>,
         <<pos("buy", Quantity), Some(<<5, 3>>), None>>,
         <<pos("buy", Quantity), Some(<<3, 5, 8>>), Some(<<100, 0, 0>>)>>,
         <<pos("short", 0), Some(<<0, -1>>), Some(<<0, 0, 0>>)>>,
         <<pos("buy", Quantity), Some(<<-1, 0, 5>>), Some(<<-1, 2, 2, 2>>)>>,
         <<pos("sell", Quantity), Some(<<3, 5, 8>>), Some(<<0, 1>>)>>}

NoPosition == [side |-> "buy", entry_price |-> 0, qty |-> 0]
NoTakeProfitCall == [op |-> "init", symbol |-> "BTCUSDT", price |-> 0,
                     position |-> NoPosition, take_profit_pcts |-> None, ratios |-> None]

StoreForEverySymbol(store, symbol, info) == [s \in DOMAIN store |-> info]

\* self.targets[symbol] = tp_info
Store(store, symbol, info) == [store EXCEPT ![symbol] = info]

UntrackedUpdateCreates(store, symbol) == [store EXCEPT ![symbol].tracked = TRUE]

\* lines 132-143: the early return for a symbol that is not in self.targets
UntrackedUpdate(store, symbol) == store

\* remove_take_profit: if symbol in self.targets: del self.targets[symbol]
remove_take_profit(store, symbol) ==
    IF store[symbol].tracked THEN [store EXCEPT ![symbol] = NoTarget] ELSE store

InitializeTakeProfitOf(symbols, inputs) ==
    \E symbol \in symbols, c \in inputs :
        /\ targets' = Store(targets, symbol,
                            initialize_take_profit(tp_cfg, c[1], c[2], c[3]))
        /\ tp_call' = [NoTakeProfitCall EXCEPT !.op = "initialize", !.symbol = symbol,
                          !.position = c[1], !.take_profit_pcts = c[2], !.ratios = c[3]]
        /\ tp_result' = NoTakeProfitResult
        /\ UNCHANGED <<tp_cfg, tp_calls, gate_vars, sizer_vars, stop_vars, limiter_vars>>

UpdateTakeProfitOf(symbols, prices) ==
    \E symbol \in symbols, price \in prices :
        /\ tp_call' = [NoTakeProfitCall EXCEPT !.op = "update", !.symbol = symbol,
                                               !.price = price]
        /\ IF targets[symbol].tracked
           THEN \E r \in {update_take_profit(targets[symbol], price)} :
                /\ targets' = Store(targets, symbol, r.info)
                /\ tp_result' = r.result
           ELSE /\ targets' = UntrackedUpdate(targets, symbol)
                /\ tp_result' = NoTakeProfitResult
        /\ UNCHANGED <<tp_cfg, tp_calls, gate_vars, sizer_vars, stop_vars, limiter_vars>>

RemoveTakeProfitOf(symbols) ==
    \E symbol \in symbols :
        /\ targets' = remove_take_profit(targets, symbol)
        /\ tp_call' = [NoTakeProfitCall EXCEPT !.op = "remove", !.symbol = symbol]
        /\ tp_result' = NoTakeProfitResult
        /\ UNCHANGED <<tp_cfg, tp_calls, gate_vars, sizer_vars, stop_vars, limiter_vars>>

InitializeTakeProfit == InitializeTakeProfitOf(Symbols, TakeProfitInputs)
UpdateTakeProfit == UpdateTakeProfitOf(Symbols, TakeProfitPrices)
RemoveTakeProfit == RemoveTakeProfitOf(Symbols)

TakeProfitNext == InitializeTakeProfit \/ UpdateTakeProfit \/ RemoveTakeProfit

\* a thread that is not inside update_take_profit
NoUpdate == [pc |-> "idle", price |-> 0, at |-> 0, triggered_levels |-> <<>>,
             result |-> NoTakeProfitResult]

-----------------------------------------------------------------------------
(* RateLimiter and AdaptiveRateLimiter (core/rate_limiter.py), one key.     *)
(* Time is counted in hundredths of a second.  acquire reads the limit      *)
(* before it takes the key's lock (lines 45-47) and does the rest, the      *)
(* sleep included, under the lock (lines 49-71): a step below is one of     *)
(* these two stretches.  report_success and report_error take no lock.      *)
(* The products and quotients with 0.8, 0.9 and 0.5 are taken on integers:  *)
(* int(c * 0.8) is (8 * c) \div 10, int(c / 0.8) is (5 * c) \div 4,         *)
(* int(c * 0.9) is (9 * c) \div 10, which is what the float expressions     *)
(* give for every c below 400.                                              *)

\* 'window': 1 second
Window == 100
\* time.sleep(wait_time + 0.01)
SleepMargin == 1
\* the time that passes between calls, half a window
TickLength == 50
MaxTime == 300
\* if self.success_count[key] >= 100
success_threshold == 100
\* error_code == 429
rate_limit_error == 429
ErrorCodes == {rate_limit_error, 500}
MaxErrors == 1
\* successes counted while an error is outstanding are never reset
MaxSuccesses == 100
MaxLimit == 17

\* self.limits[key]['limit'] = int(self.limits[key]['limit'] * 0.8)
EffectiveLimit(limit) == (8 * limit) \div 10

\* while history and history[0] <= now - window: history.popleft()
RECURSIVE DropExpired(_, _)
DropExpired(history, t) ==
    IF history # <<>> /\ Head(history) <= t - Window
    THEN DropExpired(Tail(history), t)
    ELSE history

\* lines 50-71 of acquire, under the lock: the history and the time after
\* the call, and whether history[0] raised IndexError on an empty deque
acquire_locked(history, t, max_calls) ==
    LET cleaned == DropExpired(history, t)
    IN  IF Len(cleaned) >= max_calls
        THEN IF cleaned = <<>>
             THEN [history |-> cleaned, now |-> t, raised |-> TRUE]
             ELSE LET oldest_call == Head(cleaned)
                      wait_time == Window - (t - oldest_call)
                  IN  IF wait_time > 0
                      THEN LET woken == t + wait_time + SleepMargin
                           IN  [history |-> Append(DropExpired(cleaned, woken), woken),
                                now |-> woken, raised |-> FALSE]
                      ELSE [history |-> Append(cleaned, t), now |-> t, raised |-> FALSE]
        ELSE [history |-> Append(cleaned, t), now |-> t, raised |-> FALSE]

\* lines 132-135 of report_success: the limit after a recovery step; the
\* configured limit is not consulted
Recovered(current_limit, configured) ==
    LET original_limit == (5 * current_limit) \div 4
        ceiling == (9 * original_limit) \div 10
    IN  IF 10 * current_limit < 9 * original_limit
        THEN IF current_limit + 1 <= ceiling THEN current_limit + 1 ELSE ceiling
        ELSE current_limit

\* line 152: max(1, int(limit * 0.5))
Lowered(current_limit) ==
    IF current_limit \div 2 >= 1 THEN current_limit \div 2 ELSE 1

\* a thread that is not inside acquire
NoAcquire == [pc |-> "idle", max_calls |-> 0]
NoLimiterCall == [op |-> "init", raised |-> FALSE]

\* RateLimiter.__init__ and AdaptiveRateLimiter.__init__ for one key
new_rate_limiter(configuredLimits) ==
    /\ rl_config \in {[limit |-> c, window |-> Window] : c \in configuredLimits}
    /\ rl_limit = EffectiveLimit(rl_config.limit)
    /\ call_history = <<>>
    /\ error_count = 0
    /\ success_count = 0
    /\ rl_now = 0
    /\ rl_threads = [t \in Threads |-> NoAcquire]
    /\ rl_call = NoLimiterCall

BeginAcquire ==
    \E t \in Threads :
        /\ rl_threads[t].pc = "idle"
        /\ rl_threads' = [rl_threads EXCEPT ![t] = [pc |-> "wait_lock", max_calls |-> rl_limit]]
        /\ rl_call' = [op |-> "acquire", raised |-> FALSE]
        /\ UNCHANGED <<rl_config, rl_limit, call_history, error_count, success_count,
                       rl_now, gate_vars, sizer_vars, stop_vars, tp_vars>>

AcquireLocked ==
    \E t \in Threads :
        /\ rl_threads[t].pc = "wait_lock"
        /\ \E r \in {acquire_locked(call_history, rl_now, rl_threads[t].max_calls)} :
              /\ r.now <= MaxTime
              /\ call_history' = r.history
              /\ rl_now' = r.now
              /\ rl_call' = [op |-> "acquire", raised |-> r.raised]
        /\ rl_threads' = [rl_threads EXCEPT ![t] = NoAcquire]
        /\ UNCHANGED <<rl_config, rl_limit, error_count, success_count,
                       gate_vars, sizer_vars, stop_vars, tp_vars>>

report_success ==
    /\ rl_limit < MaxLimit
    /\ success_count < MaxSuccesses
    /\ IF success_count + 1 >= success_threshold /\ error_count = 0
       THEN /\ rl_limit' = Recovered(rl_limit, rl_config.limit)
            /\ success_count' = 0
       ELSE /\ rl_limit' = rl_limit
            /\ success_count' = success_count + 1
    /\ rl_call' = [op |-> "report_success", raised |-> FALSE]
    /\ UNCHANGED <<rl_config, call_history, error_count, rl_now, rl_threads,
                   gate_vars, sizer_vars, stop_vars, tp_vars>>

ReportErrorOf(codes) ==
    \E error_code \in codes :
        /\ IF error_code = rate_limit_error
           THEN /\ rl_limit' = Lowered(rl_limit)
                /\ error_count' = 0
                /\ success_count' = 0
           ELSE /\ error_count < MaxErrors
                /\ error_count' = error_count + 1
                /\ UNCHANGED <<rl_limit, success_count>>
        /\ rl_call' = [op |-> "report_error", raised |-> FALSE]
        /\ UNCHANGED <<rl_config, call_history, rl_now, rl_threads,
                       gate_vars, sizer_vars, stop_vars, tp_vars>>

report_error == ReportErrorOf(ErrorCodes)

\* time passes between calls
LimiterTick ==
    /\ rl_now + TickLength <= MaxTime
    /\ rl_now' = rl_now + TickLength
    /\ rl_call' = [op |-> "tick", raised |-> FALSE]
    /\ UNCHANGED <<rl_config, rl_limit, call_history, error_count, success_count,
                   rl_threads, gate_vars, sizer_vars, stop_vars, tp_vars>>

-----------------------------------------------------------------------------
(* Specifications: one per component, the other components at rest in    *)
(* their documented default configuration.                                 *)

DefaultSizerConfig ==
    [base_position_size |-> 10, max_position_size |-> 30, account_risk_pct |-> 2]

\* the state after the four constructors of the risk engine, the sizer and
\* the two trackers configured from the given sets
InitComponents(sizerConfigs, stopConfigs, takeProfitConfigs) ==
    /\ sentiment_enabled = TRUE
    /\ is_paused = FALSE
    /\ pause_reason = "None"
    /\ max_equity = 0
    /\ cached_sentiment = NoCache
    /\ last_sentiment_check = 0
    /\ now = 0
    /\ decision = NoDecision
    /\ gate_call = NoGateCall
    /\ calls = [t \in Threads |-> Idle]
    /\ sizer_cfg \in sizerConfigs
    /\ sizing_call = NoSizingCall
    /\ sizing = NoSizing
    /\ stop_cfg \in stopConfigs
    /\ position_stops = [s \in Symbols |-> NoStop]
    /\ stop_call = NoStopCall
    /\ stop_result = NoStopResult
    /\ tp_cfg \in {new_take_profit_manager(c) : c \in takeProfitConfigs}
    /\ targets = [s \in Symbols |-> NoTarget]
    /\ tp_call = NoTakeProfitCall
    /\ tp_result = NoTakeProfitResult
    /\ tp_calls = [t \in Threads |-> NoUpdate]

\* the documented 'place_order' limit of 10 calls
DefaultLimit == 10

\* the risk engine with a rate limiter at rest beside it
InitWith(sizerConfigs, stopConfigs, takeProfitConfigs) ==
    /\ InitComponents(sizerConfigs, stopConfigs, takeProfitConfigs)
    /\ new_rate_limiter({DefaultLimit})

InitGate == InitWith({DefaultSizerConfig}, {DefaultStopConfig}, {DefaultTakeProfitConfig})
InitSizer == InitWith(SizerConfigs, {DefaultStopConfig}, {DefaultTakeProfitConfig})
InitStop == InitWith({DefaultSizerConfig}, StopConfigs, {DefaultTakeProfitConfig})
InitTakeProfit == InitWith({DefaultSizerConfig}, {DefaultStopConfig}, TakeProfitConfigs)

SpecGate == InitGate /\ [][GateNext]_vars
SpecGateConcurrent == InitGate /\ [][GateConcurrentNext]_vars
SpecSizer == InitSizer /\ [][SizerNext]_vars
SpecStop == InitStop /\ [][StopNext]_vars
SpecTakeProfit == InitTakeProfit /\ [][TakeProfitNext]_vars

\* The two trackers side by side, as the engine holds them: the same
\* operations, on long positions with the default stop and on two ladders.
TrackerStopPrices == {98, 102}
TrackerTakeProfitPrices == {103, 108}
TrackerTakeProfitInputs ==
    {c \in TakeProfitInputs :
        /\ c[1].side = "buy"
        /\ c[2] \in {None, Some(<<3, 5, 8>>)}
        /\ c[3] \in {None, Some(<<100, 0, 0>>)}}

TrackersInitializeStop == InitializeStopOf(Symbols, {"buy"}, {"default"})
TrackersUpdateStop == UpdateStopOf(Symbols, TrackerStopPrices)
TrackersRemoveStop == RemoveStopOf(Symbols)
TrackersInitializeTakeProfit == InitializeTakeProfitOf(Symbols, TrackerTakeProfitInputs)
TrackersUpdateTakeProfit == UpdateTakeProfitOf(Symbols, TrackerTakeProfitPrices)
TrackersRemoveTakeProfit == RemoveTakeProfitOf(Symbols)

TrackersNext ==
    \/ TrackersInitializeStop \/ TrackersUpdateStop \/ TrackersRemoveStop
    \/ TrackersInitializeTakeProfit \/ TrackersUpdateTakeProfit \/ TrackersRemoveTakeProfit

InitTrackers == InitWith({DefaultSizerConfig}, {DefaultStopConfig}, {DefaultTakeProfitConfig})
SpecTrackers == InitTrackers /\ [][TrackersNext]_vars
-----------------------------------------------------------------------------
(* update_take_profit called from two threads for the same symbol.  The     *)
(* class holds no lock, so the calls interleave between their reads and     *)
(* writes of self.targets[symbol].  A step below is one stretch of a call:  *)
(* the loop test, the fill of the level, the advance of next_index, the     *)
(* final write of completed.                                                *)

\* the symbol both threads update
SharedSymbol == "BTCUSDT"

\* the caller opens the position while no update is in flight
OpenPosition ==
    /\ \A t \in Threads : tp_calls[t].pc = "idle"
    /\ \E c \in TrackerTakeProfitInputs :
        /\ targets' = Store(targets, SharedSymbol,
                            initialize_take_profit(tp_cfg, c[1], c[2], c[3]))
        /\ tp_call' = [NoTakeProfitCall EXCEPT !.op = "initialize", !.symbol = SharedSymbol,
                          !.position = c[1], !.take_profit_pcts = c[2], !.ratios = c[3]]
    /\ UNCHANGED <<tp_cfg, tp_result, tp_calls, gate_vars, sizer_vars, stop_vars, limiter_vars>>

\* a thread enters update_take_profit for the tracked symbol (lines 130-147)
BeginUpdate ==
    \E t \in Threads, price \in TrackerTakeProfitPrices :
        /\ tp_calls[t].pc = "idle"
        /\ targets[SharedSymbol].tracked
        /\ tp_calls' = [tp_calls EXCEPT ![t] =
                           [NoUpdate EXCEPT !.pc = "loop", !.price = price]]
        /\ UNCHANGED <<tp_cfg, targets, tp_call, tp_result, gate_vars, sizer_vars,
                       stop_vars, limiter_vars>>

\* lines 149-152: the loop test, the level at next_index, the price test
LoopTest ==
    \E t \in Threads :
        LET info == targets[SharedSymbol]
            call == tp_calls[t]
        IN  /\ call.pc = "loop"
            /\ tp_calls' = [tp_calls EXCEPT ![t] =
                  IF /\ info.next_index < Len(info.levels)
                     /\ is_level_hit(info.direction, call.price,
                                     info.levels[info.next_index + 1].price)
                  THEN [@ EXCEPT !.pc = "fill", !.at = info.next_index + 1]
                  ELSE [@ EXCEPT !.pc = "finish"]]
            /\ UNCHANGED <<tp_cfg, targets, tp_call, tp_result, gate_vars, sizer_vars,
                           stop_vars, limiter_vars>>

\* lines 154-166: the level filled from remaining_qty as it is now, and listed
FillLevel ==
    \E t \in Threads :
        LET info == targets[SharedSymbol]
            call == tp_calls[t]
            level == info.levels[call.at]
            target_qty == RMin(level.target_qty, info.remaining_qty)
        IN  /\ call.pc = "fill"
            /\ targets' = Store(targets, SharedSymbol,
                  [info EXCEPT !.levels[call.at] = MarkTriggered(level, target_qty),
                               !.remaining_qty = RemainingAfter(@, target_qty)])
            /\ tp_calls' = [tp_calls EXCEPT ![t] =
                  [@ EXCEPT !.pc = "advance",
                            !.triggered_levels =
                                Append(@, [index |-> level.index, price |-> level.price,
                                           ratio |-> level.ratio, qty |-> target_qty,
                                           pct |-> level.pct])]]
            /\ UNCHANGED <<tp_cfg, tp_call, tp_result, gate_vars, sizer_vars, stop_vars, limiter_vars>>

\* lines 173-175: next_index += 1, and the early exit on remaining_qty <= 0;
\* two increments can pass len(levels), where the loop test ends the loop
AdvanceIndex ==
    \E t \in Threads :
        LET info == targets[SharedSymbol]
        IN  /\ tp_calls[t].pc = "advance"
            /\ targets' = Store(targets, SharedSymbol, [info EXCEPT !.next_index = @ + 1])
            /\ tp_calls' = [tp_calls EXCEPT ![t].pc =
                               IF RLe(info.remaining_qty, Rat(0)) THEN "finish" ELSE "loop"]
            /\ UNCHANGED <<tp_cfg, tp_call, tp_result, gate_vars, sizer_vars, stop_vars, limiter_vars>>

\* lines 177-192: completed stored, the result built
FinishUpdate ==
    \E t \in Threads :
        LET info == targets[SharedSymbol]
            call == tp_calls[t]
            has_next == info.next_index < Len(info.levels)
        IN  /\ call.pc = "finish"
            /\ targets' = Store(targets, SharedSymbol, StoreCompleted(info))
            /\ tp_calls' = [tp_calls EXCEPT ![t] =
                  [@ EXCEPT !.pc = "returned",
                            !.result =
                                [tracked |-> TRUE,
                                 triggered |-> call.triggered_levels # <<>>,
                                 triggered_levels |-> call.triggered_levels,
                                 remaining_qty |-> info.remaining_qty,
                                 completed |-> Completed(info),
                                 has_next_level |-> has_next,
                                 next_level_price |->
                                     IF has_next THEN info.levels[info.next_index + 1].price
                                     ELSE 0]]]
            /\ UNCHANGED <<tp_cfg, tp_call, tp_result, gate_vars, sizer_vars, stop_vars, limiter_vars>>

\* both callers take their results; the threads are free for new updates
ReturnUpdates ==
    /\ \A t \in Threads : tp_calls[t].pc = "returned"
    /\ tp_calls' = [t \in Threads |-> NoUpdate]
    /\ UNCHANGED <<tp_cfg, targets, tp_call, tp_result, gate_vars, sizer_vars, stop_vars, limiter_vars>>

TakeProfitConcurrentNext ==
    \/ OpenPosition \/ BeginUpdate \/ LoopTest \/ FillLevel \/ AdvanceIndex
    \/ FinishUpdate \/ ReturnUpdates

SpecTakeProfitConcurrent == InitTrackers /\ [][TakeProfitConcurrentNext]_vars
-----------------------------------------------------------------------------
(* initialize on a position dict that lacks a key.  Both trackers read the  *)
(* position with position['...'], which raises KeyError before anything is  *)
(* stored; a position here is a record that may lack a field.               *)

\* stop_loss_manager.py lines 64-65: position['side'], position['entry_price']
initialize_stop_loss_raises(position) ==
    "side" \notin DOMAIN position \/ "entry_price" \notin DOMAIN position

\* take_profit_manager.py line 62: float(position['entry_price'])
initialize_take_profit_raises(position) == "entry_price" \notin DOMAIN position

\* self.position_stops after initialize_stop_loss(symbol, position, strategy):
\* the only write is line 91, after stop_info is built
StopsAfterInitialize(store, cfg, symbol, position, strategy) ==
    IF initialize_stop_loss_raises(position) THEN store
    ELSE [store EXCEPT ![symbol] = initialize_stop_loss(cfg, position, strategy)]

TargetsAfterInitializePartial(store, cfg, symbol, position, take_profit_pcts, ratios) ==
    IF initialize_take_profit_raises(position)
    THEN Store(store, symbol, [NoTarget EXCEPT !.tracked = TRUE,
                                               !.direction = normalize_direction(position)])
    ELSE Store(store, symbol, initialize_take_profit(cfg, position, take_profit_pcts, ratios))

\* self.targets after initialize_take_profit(symbol, position, pcts, ratios):
\* the only write is line 97, after tp_info is built
TargetsAfterInitialize(store, cfg, symbol, position, take_profit_pcts, ratios) ==
    IF initialize_take_profit_raises(position) THEN store
    ELSE Store(store, symbol, initialize_take_profit(cfg, position, take_profit_pcts, ratios))

\* positions for the stop tracker: a long one, one without 'entry_price'
\* and one without 'side'
StopPositions ==
    {[side |-> "buy", entry_price |-> e] : e \in PositionEntryPrices}
        \cup {[side |-> "buy"], [entry_price |-> 100]}

\* initialize calls for the ladder: the default ladder of the trackers and
\* the same call on a position without 'entry_price'
LadderCalls ==
    LET complete == {c \in TrackerTakeProfitInputs : c[2] = None}
    IN  complete \cup {<<[side |-> c[1].side, qty |-> c[1].qty], c[2], c[3]>> :
                          c \in complete}

CallInitializeStop ==
    \E symbol \in Symbols, position \in StopPositions :
        /\ position_stops' = StopsAfterInitialize(position_stops, stop_cfg, symbol,
                                                  position, "default")
        /\ stop_call' = [NoStopCall EXCEPT
               !.op = "initialize", !.symbol = symbol, !.position = position,
               !.price = IF "entry_price" \in DOMAIN position THEN position.entry_price
                         ELSE 0]
        /\ stop_result' = NoStopResult
        /\ UNCHANGED <<stop_cfg, gate_vars, sizer_vars, tp_vars, limiter_vars>>

CallInitializeTakeProfit ==
    \E symbol \in Symbols, c \in LadderCalls :
        /\ targets' = TargetsAfterInitialize(targets, tp_cfg, symbol, c[1], c[2], c[3])
        /\ tp_call' = [NoTakeProfitCall EXCEPT !.op = "initialize", !.symbol = symbol,
                          !.position = c[1], !.take_profit_pcts = c[2], !.ratios = c[3]]
        /\ tp_result' = NoTakeProfitResult
        /\ UNCHANGED <<tp_cfg, tp_calls, gate_vars, sizer_vars, stop_vars, limiter_vars>>

\* one price above the activation level of the trailing stop and one
\* price at the first target of the ladder
InitializeUpdateStop == UpdateStopOf(Symbols, {102})
InitializeUpdateTakeProfit == UpdateTakeProfitOf(Symbols, {103})

InitializeNext ==
    \/ CallInitializeStop \/ InitializeUpdateStop
    \/ CallInitializeTakeProfit \/ InitializeUpdateTakeProfit

SpecInitialize == InitTrackers /\ [][InitializeNext]_vars
-----------------------------------------------------------------------------
(* initialize_take_profit on ladders of one, two and three levels with      *)
(* ratio lists that are shorter, longer and as long as the ladder, on a     *)
(* tracker configured with equal and with unequal ratios.                   *)

RatioLevelLists == {None, Some(<<5, 3>>), Some(<<-1, 0, 5>>)}
RatioLists == {None, Some(<<50>>), Some(<<60, 20>>), Some(<<60, 20, 20>>),
               Some(<<20, 60, -1, 10, 10>>), Some(<<0, 0>>), Some(<<-1>>)}
RatioInputs ==
    {<<[side |-> "buy", entry_price |-> 100, qty |-> Quantity], l, r>> :
        l \in RatioLevelLists, r \in RatioLists}

RatiosInitializeTakeProfit == InitializeTakeProfitOf(Symbols, RatioInputs)

SpecRatios == InitTakeProfit /\ [][RatiosInitializeTakeProfit]_vars
-----------------------------------------------------------------------------
(* The rate limiter: acquire from two threads with the limit lowered by     *)
(* 429 errors in between, and the adaptive limit under reports alone.       *)

AcquireLimits == {1, 5}
ReportLimits == {1, 10, 15}

InitAcquire ==
    InitComponents({DefaultSizerConfig}, {DefaultStopConfig}, {DefaultTakeProfitConfig})
        /\ new_rate_limiter(AcquireLimits)
InitReports ==
    InitComponents({DefaultSizerConfig}, {DefaultStopConfig}, {DefaultTakeProfitConfig})
        /\ new_rate_limiter(ReportLimits)

AcquireReportError == ReportErrorOf({rate_limit_error})
AcquireNext == BeginAcquire \/ AcquireLocked \/ AcquireReportError \/ LimiterTick
ReportsNext == report_success \/ report_error

SpecAcquire == InitAcquire /\ [][AcquireNext]_vars
SpecReports == InitReports /\ [][ReportsNext]_vars
-----------------------------------------------------------------------------
(* Properties                                                               *)

Max(a, b) == IF a >= b THEN a ELSE b
Range(seq) == {seq[i] : i \in DOMAIN seq}

\* The gates as the design states them, evaluated on a call's inputs and the
\* gate state (paused, high-water mark, cache, clock) the call starts from.
ScoreInUse(sentiment, cache, checked, t) ==
    IF sentiment.given THEN sentiment.score
    ELSE IF cache.set /\ t - checked < 300 THEN cache.score
    ELSE 0
SentimentWouldReject(call, cache, checked, t) ==
    /\ call.signal.direction = "buy"
    /\ \/ ScoreInUse(call.sentiment, cache, checked, t) <= -60
       \/ ScoreInUse(call.sentiment, cache, checked, t) <= -40
LiquidationWouldReject(call) ==
    /\ call.positions # <<>>
    /\ call.account.total > 0
    /\ call.account.used * 100 >= 50 * call.account.total
DrawdownTimes100(highWater, total) == (highWater - total) * 100
DrawdownWouldReject(call, highWater) ==
    LET hw == Max(highWater, call.account.total)
    IN  hw > 0 /\ DrawdownTimes100(hw, call.account.total) >= 15 * hw
DrawdownWouldWarn(call, highWater) ==
    LET hw == Max(highWater, call.account.total)
    IN  /\ hw > 0
        /\ DrawdownTimes100(hw, call.account.total) >= 10 * hw
        /\ DrawdownTimes100(hw, call.account.total) < 15 * hw
BalanceWouldReject(call) ==
    call.account.total > 0 /\ call.account.available * 10 < call.account.total

\* the gate a decision's reason names
ReasonGate(reason) ==
    CASE reason = "Trading paused" -> "pause"
      [] reason \in {"Critical negative sentiment", "Negative sentiment veto"} -> "sentiment"
      [] reason = "Critical liquidation risk" -> "liquidation"
      [] reason = "Max drawdown reached" -> "drawdown"
      [] reason = "Insufficient available balance" -> "balance"
      [] reason = "All risk checks passed" -> "passed"
      [] OTHER -> "unknown"

\* C1: sticky pause.  From the moment is_paused is true until resume(), every
\* evaluate call returns approved = false with multiplier 0, whatever the
\* signal, account (a fully recovered one included), positions and sentiment,
\* and is_paused goes from true to false only through resume().
C1_StickyPause ==
    [][ /\ (is_paused /\ gate_call'.op = "evaluate")
            => /\ ~decision'.approved
               /\ decision'.position_size_multiplier = 0
               /\ is_paused'
        /\ (is_paused /\ ~is_paused') => gate_call'.op = "resume" ]_vars

\* an evaluate rejected by the pause check although the equity is back at the
\* high-water mark and every other gate would pass
C1_Witness ==
    /\ gate_call.op = "evaluate"
    /\ is_paused
    /\ pause_reason = "Max drawdown reached"
    /\ decision.reason = "Trading paused"
    /\ decision.position_size_multiplier = 0
    /\ gate_call.account = [total |-> 100, available |-> 50, used |-> 0]
    /\ gate_call.account.total >= max_equity

\* C2: without reset_max_equity, max_equity never decreases; an evaluate that
\* reaches the drawdown gate leaves max_equity = max(previous, account.total).
C2_MaxEquityMonotone ==
    [][ /\ gate_call'.op # "reset" => max_equity' >= max_equity
        /\ (gate_call'.op = "evaluate" /\ "drawdown" \in Range(gate_call'.ran))
            => max_equity' = Max(max_equity, gate_call'.account.total) ]_vars

\* an evaluate that reached the drawdown gate with an equity below the
\* high-water mark, which stayed
C2_Witness ==
    /\ gate_call.op = "evaluate"
    /\ "drawdown" \in Range(gate_call.ran)
    /\ gate_call.account.total = 90
    /\ max_equity = 100

\* C3: an evaluate that reaches the drawdown gate (not paused, sentiment and
\* liquidation gates passed) with drawdown >= max_drawdown sets is_paused,
\* records the reason and rejects; with pause_threshold <= drawdown <
\* max_drawdown it only warns and leaves is_paused false; evaluate sets
\* is_paused in no other situation.
C3_DrawdownPause ==
    [][ gate_call'.op = "evaluate" =>
          LET call == gate_call'
              reaches == /\ ~is_paused
                         /\ ~SentimentWouldReject(call, cached_sentiment,
                                                  last_sentiment_check, now)
                         /\ ~LiquidationWouldReject(call)
          IN  /\ (reaches /\ DrawdownWouldReject(call, max_equity))
                  => /\ is_paused'
                     /\ pause_reason' = "Max drawdown reached"
                     /\ ~decision'.approved
                     /\ ReasonGate(decision'.reason) = "drawdown"
              /\ (reaches /\ DrawdownWouldWarn(call, max_equity))
                  => /\ ~is_paused'
                     /\ "High drawdown" \in Range(decision'.warnings)
              /\ (~is_paused /\ is_paused')
                  => (reaches /\ DrawdownWouldReject(call, max_equity)) ]_vars

\* scenario 5 in hundredths: high-water mark 100, total 85, the gate pauses
C3_Witness ==
    /\ gate_call.op = "evaluate"
    /\ gate_call.account.total = 85
    /\ max_equity = 100
    /\ is_paused
    /\ pause_reason = "Max drawdown reached"
    /\ decision.reason = "Max drawdown reached"

\* the checks validate_signal calls up to and including the given gate
\* (the sentiment check only for a buy)
ChecksUpTo(gate, direction) ==
    LET all == (IF direction = "buy" THEN <<"sentiment">> ELSE <<>>)
                 \o <<"liquidation", "drawdown", "balance">>
    IN  IF gate = "pause" THEN <<>>
        ELSE IF gate = "passed" THEN all
        ELSE SubSeq(all, 1, CHOOSE i \in DOMAIN all : all[i] = gate)

\* C4: the gates run in the order pause, sentiment, liquidation risk,
\* drawdown, balance: the returned reason is that of the earliest gate that
\* rejects the call, no later gate is run, and every rejection has
\* multiplier 0.
C4_GateOrder ==
    [][ gate_call'.op = "evaluate" =>
          LET call == gate_call'
              first == IF is_paused THEN "pause"
                       ELSE IF SentimentWouldReject(call, cached_sentiment,
                                                    last_sentiment_check, now)
                       THEN "sentiment"
                       ELSE IF LiquidationWouldReject(call) THEN "liquidation"
                       ELSE IF DrawdownWouldReject(call, max_equity) THEN "drawdown"
                       ELSE IF BalanceWouldReject(call) THEN "balance"
                       ELSE "passed"
          IN  /\ ReasonGate(decision'.reason) = first
              /\ decision'.approved <=> first = "passed"
              /\ call.ran = ChecksUpTo(first, call.signal.direction)
              /\ ~decision'.approved => decision'.position_size_multiplier = 0 ]_vars

\* a call that the sentiment, liquidation, drawdown and balance gates would
\* all reject, rejected by the sentiment gate
C4_Witness ==
    /\ gate_call.op = "evaluate"
    /\ ~is_paused
    /\ max_equity = 100
    /\ gate_call.signal.direction = "buy"
    /\ gate_call.sentiment.score = -60
    /\ gate_call.account = [total |-> 85, available |-> 5, used |-> 50]
    /\ gate_call.positions # <<>>
    /\ ReasonGate(decision.reason) = "sentiment"
    /\ gate_call.ran = <<"sentiment">>

\* the last call was size() with account_equity > 0 and entry_price > 0
SizedValid ==
    /\ sizing_call.op = "size"
    /\ sizing_call.account_equity > 0
    /\ sizing_call.signal.entry_price > 0

\* |entry_price - stop_loss|
StopGap == Abs(sizing_call.signal.entry_price - sizing_call.signal.stop_loss)

\* C5: for account_equity > 0, entry_price > 0 and a multiplier in [0,1],
\* position_value <= max_position_pct * equity, position_value <=
\* equity * account_risk_pct / stop_distance when stop_distance > 0, and
\* position_value is min(adjusted_size, max_risk_size, max_position_size).
C5_PositionValueCapped ==
    SizedValid =>
        LET pv == sizing.position_value
            e == sizing_call.account_equity
        IN  /\ ~sizing.raised
            /\ pv[1] * 100 <= sizer_cfg.max_position_size * e * pv[2]
            /\ StopGap > 0 =>
                 pv[1] * StopGap * 100
                    <= sizer_cfg.account_risk_pct * e * sizing_call.signal.entry_price * pv[2]
            /\ pv \in {sizing.adjusted_size, sizing.max_risk_limit, sizing.max_position_limit}
            /\ RLe(pv, sizing.adjusted_size)
            /\ RLe(pv, sizing.max_risk_limit)
            /\ RLe(pv, sizing.max_position_limit)

\* a sizing that the position cap decides
C5_Witness ==
    /\ SizedValid
    /\ sizing.limiting_factor = "max_position_limit"
    /\ sizing.position_value = Rat(3000)
    /\ RLt(sizing.position_value, sizing.adjusted_size)

ActiveStop(stop_info) ==
    IF stop_info.trailing_activated THEN stop_info.trailing_stop ELSE stop_info.fixed_stop

\* highest_price for a buy, lowest_price for a sell
ExtremePrice(stop_info) ==
    IF stop_info.side = "buy" THEN stop_info.highest_price ELSE stop_info.lowest_price

\* C7: FIXED -> TRAILING is one-way: no update sets trailing_activated back
\* to false, and a triggered result of an activated stop reports
\* stop_type = trailing.
C7_ActivationOneWay ==
    [][ stop_call'.op = "update" =>
          LET s == stop_call'.symbol IN
          /\ (position_stops[s].tracked /\ position_stops[s].trailing_activated)
                => position_stops'[s].trailing_activated
          /\ (position_stops'[s].trailing_activated /\ stop_result'.stop_triggered)
                => stop_result'.stop_type = "trailing" ]_vars

\* an activated stop triggered by a price at or below the entry price
C7_Witness ==
    /\ stop_call.op = "update"
    /\ position_stops[stop_call.symbol].trailing_activated
    /\ position_stops[stop_call.symbol].side = "buy"
    /\ stop_call.price < position_stops[stop_call.symbol].entry_price
    /\ stop_result.stop_triggered
    /\ stop_result.stop_type = "trailing"

\* C8: extreme_price never worsens: across updates the highest price of a
\* buy never decreases and the lowest price of a sell never increases.
C8_ExtremeNeverWorsens ==
    [][ stop_call'.op = "update" =>
          \A s \in Symbols :
            (position_stops[s].tracked /\ position_stops'[s].tracked) =>
              /\ position_stops[s].side = "buy"
                   => position_stops'[s].highest_price >= position_stops[s].highest_price
              /\ position_stops[s].side = "sell"
                   => position_stops'[s].lowest_price <= position_stops[s].lowest_price ]_vars

\* an update of an activated sell at a price above its lowest price
C8_Witness ==
    /\ stop_call.op = "update"
    /\ position_stops[stop_call.symbol].trailing_activated
    /\ position_stops[stop_call.symbol].side = "sell"
    /\ position_stops[stop_call.symbol].lowest_price = 95
    /\ stop_call.price = 98

\* C9: whenever a tracked stop is activated, trailing_stop is
\* extreme_price * (1 - trailing_distance_pct) for a buy and
\* extreme_price * (1 + trailing_distance_pct) for a sell, for every
\* configuration with trailing enabled.
C9_TrailingFromExtreme ==
    \A s \in Symbols :
        (position_stops[s].tracked /\ position_stops[s].trailing_activated)
            => position_stops[s].trailing_stop
                 = StopAt(position_stops[s].side, ExtremePrice(position_stops[s]),
                          stop_cfg.trailing_distance)

\* C10: the stop in force (fixed_stop before activation, trailing_stop after)
\* never loosens across updates, the activating update included: it never
\* decreases for a buy and never increases for a sell.
C10_StopNeverLoosens ==
    [][ stop_call'.op = "update" =>
          \A s \in Symbols :
            (position_stops[s].tracked /\ position_stops'[s].tracked) =>
              /\ position_stops[s].side = "buy"
                   => ActiveStop(position_stops'[s]) >= ActiveStop(position_stops[s])
              /\ position_stops[s].side = "sell"
                   => ActiveStop(position_stops'[s]) <= ActiveStop(position_stops[s]) ]_vars

FilledSum(tp_info) ==
    RSum([i \in DOMAIN tp_info.levels |->
            IF tp_info.levels[i].triggered THEN tp_info.levels[i].filled_qty ELSE Rat(0)])

C13_LadderMonotone ==
    [][ tp_call'.op = "update" =>
          \A s \in Symbols :
            targets[s].tracked =>
              /\ targets'[s].tracked
              /\ targets'[s].next_index >= targets[s].next_index
              /\ RLe(targets'[s].remaining_qty, targets[s].remaining_qty)
              /\ RGe(targets'[s].remaining_qty, Rat(0)) ]_vars

\* the second update of a three-level ladder: it triggered level 1 alone and
\* left a third of the quantity
C13_Witness ==
    /\ tp_call.op = "update"
    /\ targets[tp_call.symbol].tracked
    /\ targets[tp_call.symbol].next_index = 2
    /\ Len(tp_result.triggered_levels) = 1
    /\ tp_result.triggered_levels[1].index = 1
    /\ targets[tp_call.symbol].remaining_qty = Norm(Quantity, 3)
    /\ ~targets[tp_call.symbol].completed

\* C14: in every state of a ladder, right after initialize and after every
\* update, the stored completed flag is true if and only if
\* next_index = len(levels) or remaining_qty = 0; once completed is true it
\* stays true across updates, and those later updates trigger no level.
C14_CompletedFinal ==
    [][ /\ \A s \in Symbols :
             targets'[s].tracked =>
               (targets'[s].completed
                  <=> \/ targets'[s].next_index = Len(targets'[s].levels)
                      \/ targets'[s].remaining_qty = Rat(0))
        /\ (tp_call'.op = "update" /\ targets[tp_call'.symbol].tracked
               /\ targets[tp_call'.symbol].completed)
             => /\ targets'[tp_call'.symbol].completed
                /\ ~tp_result'.triggered
                /\ tp_result'.triggered_levels = <<>> ]_vars

\* the level count of a ladder: the positive entries of the requested level
\* list, or the tracker's default levels when there is none
SanitizedLevelCount(take_profit_pcts) ==
    LET positive == {i \in DOMAIN take_profit_pcts.list : take_profit_pcts.list[i] > 0}
    IN  IF positive = {} THEN Len(tp_cfg.default_levels) ELSE Cardinality(positive)

\* the ratios of a ladder, in level order
StoredRatios(tp_info) == [i \in DOMAIN tp_info.levels |-> tp_info.levels[i].ratio]

\* C15: for any requested ratio list (empty, shorter or longer than the
\* level count, with zeros or negative entries, all zeros) and any level
\* list, the ratios stored by initialize have one entry per sanitized
\* level, are all non-negative and sum to 1.
C15_RatiosNormalized ==
    [][ tp_call'.op = "initialize" =>
          LET stored == StoredRatios(targets'[tp_call'.symbol])
          IN  /\ targets'[tp_call'.symbol].tracked
              /\ Len(stored) = SanitizedLevelCount(tp_call'.take_profit_pcts)
              /\ \A i \in DOMAIN stored : RGe(stored[i], Rat(0))
              /\ RSum(stored) = Rat(1) ]_vars

\* an initialize with four requested ratios, one of them negative, and three
\* requested levels of which one is positive: a single level with ratio 1
C15_Witness ==
    /\ tp_call.op = "initialize"
    /\ tp_call.ratios = Some(<<-1, 2, 2, 2>>)
    /\ tp_call.take_profit_pcts = Some(<<-1, 0, 5>>)
    /\ StoredRatios(targets[tp_call.symbol]) = <<Rat(1)>>

\* the indices (from 0) of the levels of a ladder that are marked triggered
TriggeredIndices(tp_info) ==
    {i - 1 : i \in {j \in DOMAIN tp_info.levels : tp_info.levels[j].triggered}}

\* C16: the ladder advances left to right in the order the levels were
\* given: in every state the triggered levels are exactly those with
\* index < next_index, an update triggers a level only when every lower
\* level is triggered, and no level is triggered twice: the levels an
\* update lists are next_index, next_index + 1, ... as they were before the
\* call, and a level that is triggered keeps its fill.
C16_LeftToRight ==
    [][ /\ \A s \in Symbols :
             targets'[s].tracked =>
               /\ TriggeredIndices(targets'[s]) = 0..(targets'[s].next_index - 1)
               /\ \A i \in DOMAIN targets'[s].levels : targets'[s].levels[i].index = i - 1
        /\ (tp_call'.op = "update" /\ targets[tp_call'.symbol].tracked) =>
             LET before == targets[tp_call'.symbol]
                 after == targets'[tp_call'.symbol]
                 listed == tp_result'.triggered_levels
             IN  /\ \A k \in DOMAIN listed : listed[k].index = before.next_index + k - 1
                 /\ after.next_index = before.next_index + Len(listed)
                 /\ \A i \in DOMAIN before.levels :
                       before.levels[i].triggered => after.levels[i] = before.levels[i] ]_vars

\* a ladder given as 5% then 3%: the update that reaches the 5% target
\* triggers level 0 and then level 1, in the order given
C16_Witness ==
    /\ tp_call.op = "update"
    /\ tp_call.price = 105
    /\ targets[tp_call.symbol].tracked
    /\ targets[tp_call.symbol].next_index = 2
    /\ Len(tp_result.triggered_levels) = 2
    /\ tp_result.triggered_levels[1].index = 0
    /\ tp_result.triggered_levels[1].pct = 5
    /\ tp_result.triggered_levels[2].index = 1
    /\ tp_result.triggered_levels[2].pct = 3

\* what initialize fixed for a stop, and for a ladder
StopTerms(stop_info) ==
    <<stop_info.side, stop_info.entry_price, stop_info.stop_pct, stop_info.fixed_stop>>
LadderTerms(tp_info) ==
    <<tp_info.direction, tp_info.entry_price, tp_info.total_qty,
      [i \in DOMAIN tp_info.levels |->
          <<tp_info.levels[i].pct, tp_info.levels[i].price, tp_info.levels[i].ratio,
            tp_info.levels[i].target_qty>>]>>

\* C17: neither tracker deletes a symbol's state by itself: a symbol stops
\* being tracked only in a remove of that symbol, and after an update that
\* returns triggered (stop) or completed (take-profit) the symbol is still
\* tracked, with the terms initialize gave it and the progress the update
\* reports.
C17_NoSelfDelete ==
    [][ /\ \A s \in Symbols :
             /\ (position_stops[s].tracked /\ ~position_stops'[s].tracked)
                   => (stop_call'.op = "remove" /\ stop_call'.symbol = s)
             /\ (targets[s].tracked /\ ~targets'[s].tracked)
                   => (tp_call'.op = "remove" /\ tp_call'.symbol = s)
        /\ (stop_call'.op = "update" /\ position_stops[stop_call'.symbol].tracked
               /\ stop_result'.stop_triggered)
             => /\ position_stops'[stop_call'.symbol].tracked
                /\ StopTerms(position_stops'[stop_call'.symbol])
                     = StopTerms(position_stops[stop_call'.symbol])
                /\ stop_result'.stop_price = ActiveStop(position_stops'[stop_call'.symbol])
        /\ (tp_call'.op = "update" /\ targets[tp_call'.symbol].tracked
               /\ tp_result'.completed)
             => /\ targets'[tp_call'.symbol].tracked
                /\ targets'[tp_call'.symbol].completed
                /\ LadderTerms(targets'[tp_call'.symbol])
                     = LadderTerms(targets[tp_call'.symbol])
                /\ targets'[tp_call'.symbol].remaining_qty = tp_result'.remaining_qty ]_vars

\* a symbol whose stop has triggered and whose ladder has completed, still
\* tracked by both
C17_Witness ==
    /\ stop_call.op = "update"
    /\ stop_result.stop_triggered
    /\ position_stops[stop_call.symbol].tracked
    /\ tp_call.op = "update"
    /\ tp_call.symbol = stop_call.symbol
    /\ tp_result.completed
    /\ targets[tp_call.symbol].tracked
    /\ targets[tp_call.symbol].next_index = 3

\* C18: update for a symbol with no active tracker returns a non-triggered
\* result and leaves the tracker's whole state unchanged, no entry being
\* created for the symbol, and remove of an untracked symbol changes
\* nothing either, in the stop-loss tracker and in the take-profit tracker.
C18_UntrackedNoOp ==
    [][ /\ (stop_call'.op \in {"update", "remove"}
               /\ ~position_stops[stop_call'.symbol].tracked)
             => /\ position_stops' = position_stops
                /\ ~stop_result'.stop_triggered
        /\ (tp_call'.op \in {"update", "remove"} /\ ~targets[tp_call'.symbol].tracked)
             => /\ targets' = targets
                /\ ~tp_result'.triggered
                /\ tp_result'.triggered_levels = <<>>
                /\ ~tp_result'.completed ]_vars

\* updates of a symbol that neither tracker tracks, at prices that trigger
\* the other symbol's stop and ladder
C18_Witness ==
    /\ stop_call.op = "update"
    /\ stop_call.price = 98
    /\ ~position_stops[stop_call.symbol].tracked
    /\ \E s \in Symbols : position_stops[s].tracked
    /\ tp_call.op = "update"
    /\ tp_call.price = 108
    /\ ~targets[tp_call.symbol].tracked
    /\ \E s \in Symbols : targets[s].tracked /\ targets[s].next_index = 0

\* C19: tracker state is partitioned by symbol: initialize, update or remove
\* for a symbol leaves the stored state of every other symbol unchanged, in
\* both trackers, and what an update stores and returns is what the
\* operation gives on that symbol's own state, whatever the other symbol's
\* state is.
C19_PartitionedBySymbol ==
    [][ /\ \A s \in Symbols \ {stop_call'.symbol} : position_stops'[s] = position_stops[s]
        /\ \A s \in Symbols \ {tp_call'.symbol} : targets'[s] = targets[s]
        /\ (stop_call'.op = "update" /\ position_stops[stop_call'.symbol].tracked
               /\ position_stops' # position_stops)
             => LET alone == update_stop_loss(stop_cfg, position_stops[stop_call'.symbol],
                                              stop_call'.price)
                IN  /\ position_stops'[stop_call'.symbol] = alone.stop_info
                    /\ stop_result' = alone.result
        /\ (tp_call'.op = "update" /\ targets[tp_call'.symbol].tracked
               /\ targets' # targets)
             => LET alone == update_take_profit(targets[tp_call'.symbol], tp_call'.price)
                IN  /\ targets'[tp_call'.symbol] = alone.info
                    /\ tp_result' = alone.result ]_vars

\* both symbols tracked by both trackers; the last stop update and the last
\* ladder update moved one symbol and the other symbol is as initialize
\* left it
C19_Witness ==
    \E a, b \in Symbols :
        /\ a # b
        /\ stop_call.op = "update" /\ stop_call.symbol = a
        /\ position_stops[a].tracked /\ position_stops[a].trailing_activated
        /\ position_stops[b].tracked /\ ~position_stops[b].trailing_activated
        /\ position_stops[b].highest_price = position_stops[b].entry_price
        /\ tp_call.op = "update" /\ tp_call.symbol = a
        /\ targets[a].tracked /\ targets[a].next_index = 3
        /\ targets[b].tracked /\ targets[b].next_index = 0
        /\ targets[b].remaining_qty = targets[b].total_qty

\* C20: evaluate calls are serialized on the gate's account-wide state: for
\* two evaluate calls issued concurrently, no interleaving of their reads
\* and writes of max_equity and is_paused makes max_equity decrease or
\* loses a pause that one of them set.
C20_SerializedEvaluate ==
    [][ /\ max_equity' >= max_equity
        /\ is_paused => is_paused' ]_vars

\* the levels a thread has listed as triggered in the update it is in
ListedBy(t) == {tp_calls[t].triggered_levels[k].index : k \in DOMAIN tp_calls[t].triggered_levels}

\* the sum of filled_qty over all the levels of a ladder
FilledTotal(tp_info) ==
    RSum([i \in DOMAIN tp_info.levels |-> tp_info.levels[i].filled_qty])

\* C21: for two update calls on the same symbol issued concurrently, no
\* interleaving lets both trigger the same level, and remaining_qty plus the
\* filled quantities stays equal to total_qty, the filled quantities never
\* above total_qty.
C21_OneUpdateInFlight ==
    /\ \A t, u \in Threads : t # u => ListedBy(t) \cap ListedBy(u) = {}
    /\ targets[SharedSymbol].tracked =>
          /\ RLe(FilledTotal(targets[SharedSymbol]), targets[SharedSymbol].total_qty)
          /\ RAdd(targets[SharedSymbol].remaining_qty, FilledTotal(targets[SharedSymbol]))
                = targets[SharedSymbol].total_qty

\* C22: initialize is all-or-nothing.  A call that raises leaves the
\* tracker's mapping exactly as it was; a call that returns has stored the
\* complete state: for a ladder remaining_qty = total_qty, next_index = 0,
\* completed false and every level untriggered with nothing filled, for a
\* stop trailing_stop = fixed_stop, not activated, and both extreme prices
\* at the entry price.
C22_AllOrNothing ==
    [][ /\ (tp_call'.op = "initialize" /\ initialize_take_profit_raises(tp_call'.position))
             => targets' = targets
        /\ (tp_call'.op = "initialize" /\ ~initialize_take_profit_raises(tp_call'.position))
             => LET info == targets'[tp_call'.symbol]
                IN  /\ info.tracked
                    /\ info.levels # <<>>
                    /\ info.remaining_qty = info.total_qty
                    /\ info.next_index = 0
                    /\ ~info.completed
                    /\ \A i \in DOMAIN info.levels :
                          ~info.levels[i].triggered /\ info.levels[i].filled_qty = Rat(0)
        /\ (stop_call'.op = "initialize" /\ initialize_stop_loss_raises(stop_call'.position))
             => position_stops' = position_stops
        /\ (stop_call'.op = "initialize" /\ ~initialize_stop_loss_raises(stop_call'.position))
             => LET info == position_stops'[stop_call'.symbol]
                IN  /\ info.tracked
                    /\ info.trailing_stop = info.fixed_stop
                    /\ ~info.trailing_activated
                    /\ info.highest_price = stop_call'.position.entry_price
                    /\ info.lowest_price = stop_call'.position.entry_price
                    /\ info.entry_price = stop_call'.position.entry_price ]_vars

\* both trackers hold a position that has moved on (a level filled, the
\* trailing stop activated) when an initialize on a position without
\* 'entry_price' is the last call to each: the tracked state is still there
C22_Witness ==
    /\ tp_call.op = "initialize"
    /\ initialize_take_profit_raises(tp_call.position)
    /\ targets[tp_call.symbol].tracked
    /\ targets[tp_call.symbol].next_index > 0
    /\ stop_call.op = "initialize"
    /\ initialize_stop_loss_raises(stop_call.position)
    /\ position_stops[stop_call.symbol].trailing_activated

\* an initialize call whose arguments are not a valid ladder: a position
\* quantity of zero or less, a level percentage of zero or less, or a
\* negative ratio
InvalidLadder(call) ==
    \/ call.position.qty <= 0
    \/ \E i \in DOMAIN call.take_profit_pcts.list : call.take_profit_pcts.list[i] <= 0
    \/ \E i \in DOMAIN call.ratios.list : call.ratios.list[i] < 0

\* C23: initialize with an invalid configuration fails fast: a call with a
\* non-positive level percentage, a negative ratio or a zero position
\* quantity creates no tracker state, the mapping stays as it was.
C23_InvalidRejected ==
    [][ (tp_call'.op = "initialize" /\ InvalidLadder(tp_call')) => targets' = targets ]_vars

\* C24: calculate_position_size never raises on degenerate numeric input:
\* every call returns a result, also with entry_price = 0, a zero ATR or
\* account_equity = 0, and with stop_loss = entry_price the risk cap of the
\* result is adjusted_size.
C24_NeverRaises ==
    sizing_call.op = "size" =>
        /\ ~sizing.raised
        /\ sizing_call.signal.stop_loss = sizing_call.signal.entry_price
              => sizing.max_risk_limit = sizing.adjusted_size

\* a decision that is a rejection by the sentiment check
SentimentRejected(d) ==
    /\ ~d.approved
    /\ d.reason \in {"Critical negative sentiment", "Negative sentiment veto"}

\* the risk rate of a call as the design states it, used / total with open
\* positions, is above 10%
RiskRateHigh(call) ==
    /\ call.positions # <<>>
    /\ call.account.total > 0
    /\ call.account.used * 100 > 10 * call.account.total

\* C25: an evaluate that is not stopped by the pause is rejected by the
\* sentiment gate exactly when the signal is a buy and the score in use is
\* <= veto_threshold or <= critical_threshold; a sell is never rejected by
\* the gate and never scaled by it, whatever the score: the gate does not
\* run, and an approved sell has multiplier 1, or 0.5 from the risk rate.
C25_SentimentGate ==
    [][ (gate_call'.op = "evaluate" /\ ~is_paused) =>
          LET score == ScoreInUse(gate_call'.sentiment, cached_sentiment, last_sentiment_check, now)
              buy == gate_call'.signal.direction = "buy"
          IN  /\ SentimentRejected(decision')
                    <=> (buy /\ (score <= veto_threshold \/ score <= critical_threshold))
              /\ ~buy =>
                    /\ \A k \in DOMAIN gate_call'.ran : gate_call'.ran[k] # "sentiment"
                    /\ \A k \in DOMAIN decision'.warnings :
                          decision'.warnings[k] # "Sentiment negative"
                    /\ decision'.approved =>
                          decision'.position_size_multiplier =
                              IF RiskRateHigh(gate_call') THEN 50 ELSE 100 ]_vars

\* a buy with a supplied score of exactly the veto threshold, vetoed
C25_Witness ==
    /\ gate_call.op = "evaluate"
    /\ gate_call.signal.direction = "buy"
    /\ gate_call.sentiment.given
    /\ gate_call.sentiment.score = veto_threshold
    /\ decision.reason = "Negative sentiment veto"

\* C26: the multiplier of an approved decision is (0.7 if the signal is a
\* buy and the score in use is < -0.2, else 1) times (0.5 if the risk rate
\* is > 0.10, else 1), so it is one of 1, 0.7, 0.5, 0.35; the multiplier of
\* every decision evaluate returns is in [0, 1].  Multipliers in hundredths.
C26_Multiplier ==
    [][ gate_call'.op = "evaluate" =>
          LET score == ScoreInUse(gate_call'.sentiment, cached_sentiment,
                                  last_sentiment_check, now)
              bySentiment == IF gate_call'.signal.direction = "buy" /\ score < -20
                             THEN 70 ELSE 100
              byRiskRate == IF RiskRateHigh(gate_call') THEN 50 ELSE 100
          IN  /\ decision'.position_size_multiplier \in 0..100
              /\ decision'.approved =>
                    /\ decision'.position_size_multiplier * 100 = bySentiment * byRiskRate
                    /\ decision'.position_size_multiplier \in {100, 70, 50, 35} ]_vars

\* a buy approved with both reductions: a score between the veto threshold
\* and -0.2 and a risk rate of 20%
C26_Witness ==
    /\ gate_call.op = "evaluate"
    /\ gate_call.signal.direction = "buy"
    /\ gate_call.sentiment.score = -30
    /\ RiskRateHigh(gate_call)
    /\ decision.approved
    /\ decision.position_size_multiplier = 35

\* the FUD ratio the sentiment check of a call works with
FudRatioInUse(sentiment, cache, checked, t) ==
    IF sentiment.given THEN sentiment.fud_ratio
    ELSE IF cache.set /\ t - checked < 300 THEN cache.fud_ratio
    ELSE 0

\* C27: when a buy passes the sentiment gate with fud_ratio > 0.30 and the
\* call is approved, the warnings of the returned decision contain the
\* high-FUD warning.
C27_FudWarning ==
    [][ ( /\ gate_call'.op = "evaluate"
          /\ gate_call'.signal.direction = "buy"
          /\ FudRatioInUse(gate_call'.sentiment, cached_sentiment,
                           last_sentiment_check, now) > 30
          /\ decision'.approved )
        => \E k \in DOMAIN decision'.warnings : decision'.warnings[k] = "High FUD ratio" ]_vars

\* C28: a call that reaches the balance gate is rejected when
\* available < 0.10 * total, and when 0.10 * total <= available < 0.20 * total
\* it is approved (no other gate rejecting) with a low-balance warning in
\* the warnings of the returned decision.
C28_BalanceGate ==
    [][ gate_call'.op = "evaluate" =>
          LET account == gate_call'.account
              reached == \E k \in DOMAIN gate_call'.ran : gate_call'.ran[k] = "balance"
          IN  /\ (reached /\ account.total > 0 /\ account.available * 10 < account.total)
                    => /\ ~decision'.approved
                       /\ decision'.reason = "Insufficient available balance"
              /\ ( /\ reached
                    /\ account.total > 0
                    /\ account.available * 10 >= account.total
                    /\ account.available * 5 < account.total )
                    => /\ decision'.approved
                       /\ \E k \in DOMAIN decision'.warnings :
                             decision'.warnings[k] = "Low available balance" ]_vars

\* C29: the result of an update of a tracked ladder has no next_level_price
\* when completed is true, and when completed is false its next_level_price
\* is the target price of levels[next_index], for any ratio list, lists
\* with zero ratios included.
C29_NextLevelPrice ==
    (tp_call.op = "update" /\ tp_result.tracked) =>
        LET info == targets[tp_call.symbol]
        IN  /\ tp_result.completed => ~tp_result.has_next_level
            /\ ~tp_result.completed =>
                  /\ tp_result.has_next_level
                  /\ info.next_index < Len(info.levels)
                  /\ tp_result.next_level_price = info.levels[info.next_index + 1].price

\* a target price (times 100) is crossed by a price: reached from below for
\* a buy, from above for a sell
Crossed(direction, price, target_price) ==
    IF direction = "buy" THEN price * 100 >= target_price ELSE price * 100 <= target_price

\* the quantity that remains before the k-th level an update lists, given
\* the quantities of the levels listed before it
RemainingBefore(before, listed, k) ==
    RSub(before.remaining_qty, RSum([j \in 1..(k - 1) |-> listed[j].qty]))

\* C30: one update triggers exactly the maximal consecutive run of levels
\* starting at next_index whose target price is crossed, stopping early
\* once remaining_qty reaches 0: a level is triggered only while quantity
\* remains, the run ends at the end of the ladder, at a level that is not
\* crossed, or with nothing remaining; each triggered level is filled with
\* min(target_qty, remaining_qty), and the result lists exactly these
\* levels in index order.
C30_MaximalRun ==
    [][ (tp_call'.op = "update" /\ targets[tp_call'.symbol].tracked) =>
          LET before == targets[tp_call'.symbol]
              after == targets'[tp_call'.symbol]
              listed == tp_result'.triggered_levels
              n == Len(listed)
              end == before.next_index + n
          IN  /\ end <= Len(before.levels)
              /\ after.next_index = end
              /\ \A k \in 1..n :
                    LET level == before.levels[before.next_index + k]
                        remaining == RemainingBefore(before, listed, k)
                    IN  /\ listed[k].index = before.next_index + k - 1
                        /\ Crossed(before.direction, tp_call'.price, level.price)
                        /\ RGt(remaining, Rat(0))
                        /\ listed[k].qty = RMin(level.target_qty, remaining)
                        /\ after.levels[before.next_index + k].triggered
                        /\ after.levels[before.next_index + k].filled_qty = listed[k].qty
              /\ \A i \in DOMAIN before.levels :
                    (i <= before.next_index \/ i > end) => after.levels[i] = before.levels[i]
              /\ after.remaining_qty = RemainingBefore(before, listed, n + 1)
              /\ \/ end = Len(before.levels)
                 \/ ~Crossed(before.direction, tp_call'.price, before.levels[end + 1].price)
                 \/ RLe(after.remaining_qty, Rat(0)) ]_vars

\* the non-negative entries of a requested ratio list, in order
KeptRatios(ratios) == Filter(ratios.list, [i \in DOMAIN ratios.list |-> ratios.list[i] >= 0])

\* the kept entries brought to n entries: cut, or continued with the last
PaddedRatios(ratios, n) ==
    LET kept == KeptRatios(ratios)
    IN  [i \in 1..n |-> IF i <= Len(kept) THEN kept[i] ELSE kept[Len(kept)]]

\* the sum of a sequence of integers
RECURSIVE SumOf(_)
SumOf(seq) == IF seq = <<>> THEN 0 ELSE Head(seq) + SumOf(Tail(seq))

\* C31: the ratios an initialize stores for a supplied ratio list (its
\* non-negative entries) are that list padded with its last value when it
\* is shorter than the sanitized level count, truncated when it is longer,
\* and divided by the sum of the result: the stored ratios keep the
\* proportions of the padded list, and [0.5] with 3 levels gives 1/3 each.
C31_RatioMatching ==
    [][ (tp_call'.op = "initialize" /\ KeptRatios(tp_call'.ratios) # <<>>) =>
          LET stored == StoredRatios(targets'[tp_call'.symbol])
              n == SanitizedLevelCount(tp_call'.take_profit_pcts)
              padded == PaddedRatios(tp_call'.ratios, n)
              total == SumOf(padded)
          IN  /\ Len(stored) = n
              /\ total > 0 => \A i \in 1..n : stored[i] = Norm(padded[i], total)
              /\ \A i, j \in 1..n :
                    RMul(stored[i], Rat(padded[j])) = RMul(stored[j], Rat(padded[i])) ]_vars

\* [0.6, 0.2] on the default three levels: padded to [0.6, 0.2, 0.2]
C31_Witness ==
    /\ tp_call.op = "initialize"
    /\ tp_call.ratios = Some(<<60, 20>>)
    /\ tp_call.take_profit_pcts = None
    /\ StoredRatios(targets[tp_call.symbol]) = <<Norm(3, 5), Norm(1, 5), Norm(1, 5)>>

\* C32: when no ratios are supplied to initialize, every level of the
\* ladder gets the equal weight 1/N, N the sanitized level count of the
\* call, whatever ratios the tracker was constructed with.
C32_EqualWeights ==
    [][ (tp_call'.op = "initialize" /\ ~tp_call'.ratios.given) =>
          LET stored == StoredRatios(targets'[tp_call'.symbol])
              n == SanitizedLevelCount(tp_call'.take_profit_pcts)
          IN  /\ Len(stored) = n
              /\ \A i \in 1..n : stored[i] = Norm(1, n) ]_vars

\* C33: every result of an update of a tracked stop, triggered or not,
\* carries stop_price, the stop that is active after the call, and
\* stop_type, fixed or trailing.
C33_ResultFields ==
    (stop_call.op = "update" /\ stop_result.tracked) =>
        LET info == position_stops[stop_call.symbol]
        IN  /\ stop_result.has_stop
            /\ stop_result.stop_type =
                  (IF info.trailing_activated THEN "trailing" ELSE "fixed")
            /\ stop_result.stop_price =
                  (IF info.trailing_activated THEN info.trailing_stop ELSE info.fixed_stop)

\* C34: an evaluate that is rejected by the pause check, the sentiment
\* gate or the liquidation gate leaves max_equity, is_paused and
\* pause_reason as they were, also when account.total is above the stored
\* max_equity; max_equity changes only in a call that reaches the drawdown
\* gate.
C34_RejectedFrame ==
    [][ gate_call'.op = "evaluate" =>
          /\ ReasonGate(decision'.reason) \in {"pause", "sentiment", "liquidation"}
                => /\ max_equity' = max_equity
                   /\ is_paused' = is_paused
                   /\ pause_reason' = pause_reason
          /\ max_equity' # max_equity
                => \E k \in DOMAIN gate_call'.ran : gate_call'.ran[k] = "drawdown" ]_vars

\* a call rejected by the liquidation gate with an account total above the
\* stored high-water mark
C34_Witness ==
    /\ gate_call.op = "evaluate"
    /\ decision.reason = "Critical liquidation risk"
    /\ gate_call.account.total > max_equity

\* C35: quantity conservation.  In every state of a tracked ladder
\* remaining_qty plus the sum of filled_qty over all levels equals
\* total_qty, and the filled_qty of each level is at most its target_qty.
C35_Conservation ==
    \A s \in Symbols :
        targets[s].tracked =>
            /\ RAdd(targets[s].remaining_qty, FilledTotal(targets[s])) = targets[s].total_qty
            /\ \A i \in DOMAIN targets[s].levels :
                  RLe(targets[s].levels[i].filled_qty, targets[s].levels[i].target_qty)

\* a ladder with two levels filled and a quantity remaining
C35_Witness ==
    \E s \in Symbols :
        /\ targets[s].tracked
        /\ targets[s].next_index = 2
        /\ RGt(targets[s].levels[1].filled_qty, Rat(0))
        /\ RGt(targets[s].levels[2].filled_qty, Rat(0))
        /\ RGt(targets[s].remaining_qty, Rat(0))

\* C36: a reading supplied to one evaluate never influences a later call.
\* The cache only ever holds the neutral reading (score 0, fud_ratio 0),
\* and an evaluate made without a reading is never rejected or scaled by
\* the sentiment gate, whatever readings earlier calls supplied: its
\* multiplier, when approved, is 1, or 0.5 from the risk rate.
C36_NeutralCache ==
    [][ /\ cached_sentiment'.set =>
              cached_sentiment'.score = 0 /\ cached_sentiment'.fud_ratio = 0
        /\ (gate_call'.op = "evaluate" /\ ~gate_call'.sentiment.given) =>
              /\ ~SentimentRejected(decision')
              /\ \A k \in DOMAIN decision'.warnings :
                    decision'.warnings[k] \notin {"Sentiment negative", "High FUD ratio"}
              /\ decision'.approved =>
                    decision'.position_size_multiplier =
                        IF RiskRateHigh(gate_call') THEN 50 ELSE 100 ]_vars

\* a buy evaluated without a reading after earlier calls (the high-water
\* mark is above this call's total) while the cache is set, approved in full
C36_Witness ==
    /\ gate_call.op = "evaluate"
    /\ gate_call.account.total < max_equity
    /\ gate_call.signal.direction = "buy"
    /\ ~gate_call.sentiment.given
    /\ cached_sentiment.set
    /\ decision.approved
    /\ decision.position_size_multiplier = 100

\* the gain of a position at a price reaches the activation level of the
\* trailing stop (pct in hundredths)
GainReaches(info, price, pct) ==
    IF info.side = "buy" THEN (price - info.entry_price) * 100 >= pct * info.entry_price
    ELSE (info.entry_price - price) * 100 >= pct * info.entry_price

\* C37: a stop trigger is not latched.  The update that follows a
\* triggered result for the same symbol is worked out from the tracked
\* state and the new price like any other: the entry is still tracked, the
\* result is triggered exactly when the price is at or beyond the active
\* stop (so not at a price back on the favourable side), and the trailing
\* stop is activated when the gain reaches the activation level, also
\* after the fixed stop has triggered.
C37_NotLatched ==
    [][ ( /\ stop_call'.op = "update"
          /\ stop_call.op = "update"
          /\ stop_call'.symbol = stop_call.symbol
          /\ stop_result.stop_triggered ) =>
          LET before == position_stops[stop_call'.symbol]
              after == position_stops'[stop_call'.symbol]
              price == stop_call'.price
              stop == IF after.trailing_activated THEN after.trailing_stop
                      ELSE after.fixed_stop
          IN  /\ before.tracked /\ after.tracked
              /\ stop_result'.stop_triggered <=>
                    (IF after.side = "buy" THEN price * 100 <= stop ELSE price * 100 >= stop)
              /\ after.trailing_activated <=>
                    \/ before.trailing_activated
                    \/ stop_cfg.trailing_enabled
                          /\ GainReaches(before, price, stop_cfg.trailing_activation) ]_vars

\* an update has returned a fixed-stop trigger and the position is still
\* tracked as it was, its trailing stop not yet activated: the state the
\* later updates of the claim start from
C37_Witness ==
    /\ stop_call.op = "update"
    /\ stop_result.stop_triggered
    /\ stop_result.stop_type = "fixed"
    /\ position_stops[stop_call.symbol].tracked
    /\ ~position_stops[stop_call.symbol].trailing_activated
    /\ stop_cfg.trailing_enabled

\* the recorded calls whose timestamps lie within the last window
RecordedInWindow ==
    Cardinality({i \in 1..Len(call_history) : call_history[i] > rl_now - rl_config.window})

\* C38: whatever acquire and report_error calls the threads have made on the
\* key, the recorded calls within the last window number at most
\* int(0.8 * configured limit), and no acquire has raised, for every
\* configured limit >= 1.
C38_SlidingWindowBound ==
    /\ rl_config.limit >= 1 => ~(rl_call.op = "acquire" /\ rl_call.raised)
    /\ RecordedInWindow <= (8 * rl_config.limit) \div 10

\* C39: whatever report_success and report_error calls have been made, the
\* limit in force for the key is at least 1 and at most the limit the key was
\* configured with.
C39_LimitBounds ==
    /\ rl_limit >= 1
    /\ rl_limit <= rl_config.limit

====
